---- MODULE Spec2Model ----
(***************************************************************************)
(* Model of the EDIWIN order parsers (tsuspe/ediwin-parser):               *)
(*   eurofiel_resumen_pedidos.py  split_orders, parse_detail_line,         *)
(*                                parse_order, parse_pdf                   *)
(*   eci_parser.py                parse_page_eci, parse_pdf_eci            *)
(* Text is a sequence of one-character strings; the Python string and      *)
(* regular-expression primitives the parsers use are operators on such     *)
(* sequences.  Offsets into a text are 0-based as in the source, so the    *)
(* character at offset k of t is t[k + 1].                                 *)
(***************************************************************************)
EXTENDS Integers, Sequences, FiniteSets, TLC

VARIABLES
    pc,         \* position of the driver: "input" while the text is built, "done" after the call
    fed,        \* how many pieces of text the driver has put together
    line,       \* Eurofiel: the line handed to parse_detail_line
    parsed,     \* Eurofiel: what parse_detail_line returned
    full_text,  \* Eurofiel: the page texts joined by newlines, as parse_pdf builds it
    orders,     \* Eurofiel: the chunks split_orders returned
    rows,       \* Eurofiel: the rows parse_pdf returned
    pages,      \* ECI: the text of each page of the document, in page order
    page_rows,  \* ECI: what parse_page_eci returned for each page
    df_grouped, \* ECI: the grouped rows parse_pdf_eci returned
    p_raw,      \* a raw price token
    precio_steps, \* the successive results of normalizing p_raw
    grammar,    \* whose normalization was applied: "eurofiel", "eci" or "" for none yet
    eq_table,   \* eurofiel_parser: the equivalence table handed to parse_equivalences
    eq,         \* eurofiel_parser: the mapping parse_equivalences returned
    lineas,     \* eurofiel_parser: the article lines handed to build_dataframe
    df,         \* eurofiel_parser: the rows build_dataframe returned
    ef_pages,   \* eurofiel_parser: the page texts of the document parse_pdf reads
    page_no,    \* eurofiel_parser: how many pages the loop of parse_pdf has gone through
    current,    \* eurofiel_parser: current_pedido, current_fecha, ... of parse_pdf
    header,     \* eurofiel_parser: the Header of parse_pdf
    out_file,   \* the CLIs: what was written to the output path
    printed     \* the CLIs: what was printed

detailVars == <<line, parsed>>

orderVars == <<full_text, orders, rows>>

eciVars == <<pages, page_rows, df_grouped>>

priceVars == <<p_raw, precio_steps, grammar>>

mapVars == <<eq_table, eq, lineas, df>>

hdrVars == <<ef_pages, page_no, current, header>>

cliVars == <<out_file, printed>>

vars == <<pc, fed, detailVars, orderVars, eciVars, priceVars, mapVars, hdrVars, cliVars>>

(***************************************************************************)
(* Character classes and string primitives                                 *)
(***************************************************************************)
Digits == {"0", "1", "2", "3", "4", "5", "6", "7", "8", "9"}

\* what str.split(), str.strip() and \s treat as white space
Whitespace == {" ", "\n"}

Max(S) == CHOOSE m \in S : \A o \in S : o <= m

Min(S) == CHOOSE m \in S : \A o \in S : m <= o

\* str.isdigit(): non-empty and digits only
IsDigit(s) == Len(s) > 0 /\ \A i \in 1..Len(s) : s[i] \in Digits

\* s.replace(old, new) for one-character old and new
Replace(s, old, new) == [i \in 1..Len(s) |-> IF s[i] = old THEN new ELSE s[i]]

\* s.replace(old, ""): every occurrence of the character old removed
Remove(s, old) == SelectSeq(s, LAMBDA ch : ch # old)

\* the elements of a finite set of integers, in increasing order
Sorted(S) ==
    [k \in 1..Cardinality(S) |-> CHOOSE i \in S : Cardinality({j \in S : j < i}) = k - 1]

RECURSIVE NonWsEnd(_, _)
\* where the run of characters other than white space that starts at offset k stops
NonWsEnd(s, k) ==
    IF k < Len(s) /\ s[k + 1] \notin Whitespace THEN NonWsEnd(s, k + 1) ELSE k

\* s.split(): the maximal runs of characters other than white space, in order
Split(s) ==
    LET starts == Sorted({k \in 0..(Len(s) - 1) :
                            /\ s[k + 1] \notin Whitespace
                            /\ (k = 0 \/ s[k] \in Whitespace)})
    IN  [n \in 1..Len(starts) |-> SubSeq(s, starts[n] + 1, NonWsEnd(s, starts[n]))]

RECURSIVE Concat(_)
\* the sequences of ss one after the other
Concat(ss) == IF ss = <<>> THEN <<>> ELSE Head(ss) \o Concat(Tail(ss))

RECURSIVE Join(_, _)
\* sep.join(items)
Join(sep, items) ==
    IF items = <<>> THEN <<>>
    ELSE IF Len(items) = 1 THEN items[1]
    ELSE items[1] \o sep \o Join(sep, Tail(items))

(***************************************************************************)
(* eurofiel_resumen_pedidos.parse_detail_line                              *)
(***************************************************************************)
\* the value None; the tuple returned on success has three components
None == <<>>

\* no equivalence table: --map was not given
NoTable == [path |-> FALSE, cols |-> 0, rows |-> <<>>]

\* current_pedido, current_fecha, current_fecha_entrega and current_destino
\* as parse_pdf starts with
NoHeader == [pedido |-> <<>>, fecha |-> <<>>, fecha_entrega |-> <<>>, destino |-> <<>>]

\* Header()
NewHeader ==
    [tipo |-> <<"P", "e", "d", "i", "d", "o">>,
     pedido |-> <<>>, fecha |-> <<>>, fecha_entrega |-> <<>>, destino |-> <<>>]

\* no file at the output path
NoFile == [written |-> FALSE, rows |-> 0]

MinParts == 8

EanLen == 13

FirstCodeIdx == 2

TokensAfterCli == 4

GrossPriceOffset == 2

NetPriceOffset == 3

\* the operand of re.fullmatch(r"\d{13}", tok) with a looser pattern \d+
IsEan13Loose(tok) == IsDigit(tok)

\* re.fullmatch(r"\d{13}", tok)
IsEan13(tok) == Len(tok) = EanLen /\ \A i \in 1..Len(tok) : tok[i] \in Digits

\* re.fullmatch(r"\d+/\d+/\d+", tok): exactly two slashes, which split the
\* token into three non-empty runs of digits
IsCliCode(tok) ==
    LET sl == {i \in 1..Len(tok) : tok[i] = "/"} IN
    /\ Cardinality(sl) = 2
    /\ \A i \in (1..Len(tok)) \ sl : tok[i] \in Digits
    /\ 1 \notin sl
    /\ Len(tok) \notin sl
    /\ \A i \in sl : i + 1 \notin sl

\* a search that keeps the last match instead of breaking at the first
FindCliIdxLast(parts) ==
    LET hits == {i \in FirstCodeIdx..(Len(parts) - 1) : IsCliCode(parts[i + 1])} IN
    IF hits = {} THEN -1 ELSE Max(hits)

\* the loop "for i in range(2, len(parts))" with its break: the 0-based index
\* of the first token of shape d+/d+/d+, or -1 for cli_idx = None
FindCliIdx(parts) ==
    LET hits == {i \in FirstCodeIdx..(Len(parts) - 1) : IsCliCode(parts[i + 1])} IN
    IF hits = {} THEN -1 ELSE Min(hits)

\* re.sub(r"/[^/]+$", "", s): the only possible match starts at the last
\* slash and needs at least one character after it
StripSize(s) ==
    LET sl == {i \in 1..Len(s) : s[i] = "/"} IN
    IF sl = {} \/ Max(sl) = Len(s) THEN s ELSE SubSeq(s, 1, Max(sl) - 1)

\* precio = p_neto.replace(",", ".")
NormalizePriceEurofiel(tok) == Replace(tok, ",", ".")

parse_detail_line(ln) ==
    LET parts   == Split(ln)
        cli_idx == FindCliIdx(parts)
    IN  IF Len(parts) < MinParts THEN None
        ELSE IF ~IsDigit(parts[1]) THEN None
        ELSE IF ~IsEan13(parts[2]) THEN None
        ELSE IF cli_idx = -1 \/ cli_idx + TokensAfterCli >= Len(parts) THEN None
        ELSE LET cod_prov_full == Join(<<" ">>, SubSeq(parts, FirstCodeIdx + 1, cli_idx))
                 cod_cli_full  == parts[cli_idx + 1]
                 p_neto        == parts[cli_idx + NetPriceOffset + 1]
                 modelo        == StripSize(cod_prov_full)
                 patron        == StripSize(cod_cli_full)
                 precio        == NormalizePriceEurofiel(p_neto)
             IN  <<modelo, patron, precio>>

(***************************************************************************)
(* Inputs of the detail-line specification                                 *)
(***************************************************************************)
MaxParts == 9

Ean == <<"8", "4", "4", "7", "5", "7", "1", "2", "9", "9", "7", "4", "7">>

CliCode == <<"0", "8", "3", "2", "5", "4", "7", "/", "1", "1", "/", "0", "4">>

\* first token: a line index, or a word
FirstPool == { <<"1">>, <<"A", "1">> }

\* second token: an EAN-13, or a shorter run of digits
SecondPool == { Ean, <<"1", "2">> }

\* vendor code, colour and size: "2TB060/AZUL OSCUR/S" comes as two tokens
\* (the second one here after one more blank than the others)
VendorPool == { <<"2", "T", "B", "0", "6", "0", "/", "A", "Z", "U", "L">>,
                <<" ", "O", "S", "C", "U", "R", "/", "S">>,
                <<"X", "S", "/">> }

\* what follows the client code: quantities and prices, or one more code
TailPool == { <<"5", "0">>, <<"2", "7", ",", "5">>, CliCode }

\* the pieces that may come next on a line
NextPool(ln) ==
    LET parts == Split(ln) IN
    IF Len(parts) = 0 THEN FirstPool
    ELSE IF Len(parts) = 1 THEN SecondPool
    ELSE IF FindCliIdx(parts) = -1 THEN VendorPool \cup {CliCode}
    ELSE TailPool

\* eurofiel_parser and the CLIs have not run
OthersIdle ==
    /\ eq_table = NoTable
    /\ eq = <<>>
    /\ lineas = <<>>
    /\ df = <<>>
    /\ ef_pages = <<>>
    /\ page_no = 0
    /\ current = NoHeader
    /\ header = NewHeader
    /\ out_file = NoFile
    /\ printed = <<>>

InitDetail ==
    /\ pc = "input"
    /\ fed = 0
    /\ line = <<>>
    /\ parsed = None
    /\ full_text = <<>>
    /\ orders = <<>>
    /\ rows = <<>>
    /\ pages = <<>>
    /\ page_rows = <<>>
    /\ df_grouped = {}
    /\ p_raw = <<>>
    /\ precio_steps = <<>>
    /\ grammar = ""
    /\ OthersIdle

\* the caller extends the line by one token
AppendToken ==
    /\ pc = "input"
    /\ Len(Split(line)) < MaxParts
    /\ \E tok \in NextPool(line) :
          line' = (IF line = <<>> THEN tok ELSE line \o <<" ">> \o tok)
    /\ UNCHANGED <<pc, fed, parsed, orderVars, eciVars, priceVars, mapVars, hdrVars, cliVars>>

\* parsed = parse_detail_line(ln)
CallParseDetailLine ==
    /\ pc = "input"
    /\ parsed' = parse_detail_line(line)
    /\ pc' = "done"
    /\ UNCHANGED <<fed, line, orderVars, eciVars, priceVars, mapVars, hdrVars, cliVars>>

NextDetail == AppendToken \/ CallParseDetailLine

SpecDetail == InitDetail /\ [][NextDetail]_vars

(***************************************************************************)
(* Properties of parse_detail_line.  The shapes are restated here from the *)
(* documented line format, independently of the operators above.           *)
(***************************************************************************)
Chars(s) == {s[i] : i \in 1..Len(s)}

AllDigits(tok) == tok # <<>> /\ Chars(tok) \subseteq Digits

\* digits/digits/digits
ThreeNumbers(tok) ==
    \E i, j \in 1..Len(tok) :
        /\ i < j
        /\ tok[i] = "/"
        /\ tok[j] = "/"
        /\ AllDigits(SubSeq(tok, 1, i - 1))
        /\ AllDigits(SubSeq(tok, i + 1, j - 1))
        /\ AllDigits(SubSeq(tok, j + 1, Len(tok)))

\* digits/digits
TwoNumbers(tok) ==
    \E i \in 1..Len(tok) :
        /\ tok[i] = "/"
        /\ AllDigits(SubSeq(tok, 1, i - 1))
        /\ AllDigits(SubSeq(tok, i + 1, Len(tok)))

\* s up to its last slash, the slash excluded; s itself when it has no slash
DropLastSegment(s) ==
    IF "/" \notin Chars(s) THEN s
    ELSE SubSeq(s, 1, Max({i \in 1..Len(s) : s[i] = "/"}) - 1)

CommaToDot(a, b) ==
    /\ Len(a) = Len(b)
    /\ \A i \in 1..Len(a) : b[i] = (IF a[i] = "," THEN "." ELSE a[i])

\* In what follows t is the token list of the line and token k (0-based, as
\* the documents count it) is t[k + 1].

\* the 0-based indices (>= 2) of the tokens of shape digits/digits/digits
CodeIdxs(t) == {k \in 2..(Len(t) - 1) : ThreeNumbers(t[k + 1])}

\* the vendor code of a line whose client code is token c: tokens 2..c-1
\* joined by single blanks
VendorSpan(t, c) == Join(<<" ">>, [k \in 1..(c - 2) |-> t[k + 2]])

Accepted == pc = "done" /\ parsed # None

\* C1: parse_detail_line returns None for every line that has fewer than 8
\* tokens, or whose first token is not an integer, or whose second token is
\* not exactly 13 digits, or that has no digits/digits/digits token at index
\* 2 or later.  (That it never raises shows as TLC evaluating the operator
\* on every input without an out-of-range index.)
C1_ViolatesShape(t) ==
    \/ Len(t) < 8
    \/ ~AllDigits(t[1])
    \/ ~(AllDigits(t[2]) /\ Len(t[2]) = 13)
    \/ CodeIdxs(t) = {}

C1_MalformedLineGivesNone ==
    (pc = "done" /\ parsed # None) => ~C1_ViolatesShape(Split(line))

\* a full-length line whose only defect is a second token that is too short
C1_Witness ==
    /\ pc = "done"
    /\ parsed = None
    /\ LET t == Split(line) IN
       /\ Len(t) >= 8
       /\ AllDigits(t[1])
       /\ AllDigits(t[2]) /\ Len(t[2]) # 13
       /\ CodeIdxs(t) # {}
       /\ Min(CodeIdxs(t)) + 4 < Len(t)

\* C2 as stated: a line is accepted if and only if token 0 is an integer,
\* token 1 is 13 digits, some token at index c >= 2 is digits/digits/digits
\* and at least 4 tokens follow the first such c (so 7 tokens can be enough).
C2_StatedShape(t) ==
    /\ Len(t) >= 2
    /\ AllDigits(t[1])
    /\ AllDigits(t[2]) /\ Len(t[2]) = 13
    /\ CodeIdxs(t) # {}
    /\ Len(t) - 1 - Min(CodeIdxs(t)) >= 4

C2_AcceptedIffStatedShape ==
    pc = "done" => (parsed # None <=> C2_StatedShape(Split(line)))

\* C2 amended: a line is accepted if and only if it has at least 8 tokens
\* and meets the stated shape; a 7-token line is never accepted.
C2_AcceptedIffShapeAndEightTokens ==
    pc = "done" =>
        LET t == Split(line) IN parsed # None <=> (Len(t) >= 8 /\ C2_StatedShape(t))

\* the shortest accepted line: 8 tokens
C2_Witness == Accepted /\ Len(Split(line)) = 8

\* C3 as stated: for every accepted line, model is tokens 2..c-1 joined by
\* blanks without its last slash-delimited segment, pattern is token c
\* without its last segment (so digits/digits), and price is token c+3 with
\* every comma replaced by a dot.
C3_FieldsAsStated ==
    Accepted =>
        LET t == Split(line)
            c == Min(CodeIdxs(t))
        IN  /\ parsed[1] = DropLastSegment(VendorSpan(t, c))
            /\ parsed[2] = DropLastSegment(t[c + 1])
            /\ TwoNumbers(parsed[2])
            /\ CommaToDot(t[c + 4], parsed[3])

\* C3 amended: as stated, except that a vendor span that ends in a slash is
\* returned whole as the model (nothing follows its last slash, so nothing
\* is removed).
C3_FieldsAmended ==
    Accepted =>
        LET t == Split(line)
            c == Min(CodeIdxs(t))
            v == VendorSpan(t, c)
        IN  /\ parsed[1] = (IF v # <<>> /\ v[Len(v)] = "/" THEN v ELSE DropLastSegment(v))
            /\ parsed[2] = DropLastSegment(t[c + 1])
            /\ TwoNumbers(parsed[2])
            /\ CommaToDot(t[c + 4], parsed[3])

\* an accepted line with a two-token vendor code, a decimal comma in the net
\* price and a different gross price
C3_Witness ==
    /\ Accepted
    /\ LET t == Split(line)
           c == Min(CodeIdxs(t))
       IN  /\ c = 4
           /\ "/" \in Chars(parsed[1]) /\ " " \in Chars(parsed[1])
           /\ "," \in Chars(t[c + 4])
           /\ t[c + 3] # t[c + 4]
           /\ "." \in Chars(parsed[3])

(***************************************************************************)
(* eurofiel_resumen_pedidos.split_orders                                   *)
(***************************************************************************)
\* the literal text of the patterns r"Nº Pedido\s*:" and r"Nº Pedido\s*:\s*(\S+)"
PedidoLit == <<"N", "º", " ", "P", "e", "d", "i", "d", "o">>

\* t[a:b] for 0 <= a and b <= len(t)
Slice(t, a, b) == SubSeq(t, a + 1, b)

\* whether the literal lit stands at offset k of t
LitAt(t, k, lit) ==
    /\ k + Len(lit) <= Len(t)
    /\ \A i \in 1..Len(lit) : t[k + i] = lit[i]

RECURSIVE SkipWs(_, _)
\* where a greedy \s* that starts at offset k stops
SkipWs(t, k) ==
    IF k < Len(t) /\ t[k + 1] \in Whitespace THEN SkipWs(t, k + 1) ELSE k

\* the end offset of the match of r"Nº Pedido\s*:" that starts at offset k,
\* or -1 when there is none
MarkerEnd(t, k) ==
    IF ~LitAt(t, k, PedidoLit) THEN -1
    ELSE LET c == SkipWs(t, k + Len(PedidoLit)) IN
         IF c < Len(t) /\ t[c + 1] = ":" THEN c + 1 ELSE -1

\* re.finditer(r"Nº Pedido\s*:", t): the start offsets of the matches, in
\* increasing order.  No match can start inside another one (the pattern
\* starts with "N", which occurs nowhere else in it), so every offset where
\* the pattern matches is the start of one of the successive matches.
FindIter(t) == Sorted({k \in 0..(Len(t) - 1) : MarkerEnd(t, k) # -1})

\* t.rfind(ch, lo, hi): the highest offset in lo..hi-1 that holds ch, or -1
RFind(t, ch, lo, hi) ==
    LET hits == {k \in lo..(hi - 1) : t[k + 1] = ch} IN
    IF hits = {} THEN -1 ELSE Max(hits)

RECURSIVE LStrip(_)
LStrip(s) == IF s # <<>> /\ Head(s) \in Whitespace THEN LStrip(Tail(s)) ELSE s

RECURSIVE RStrip(_)
RStrip(s) ==
    IF s # <<>> /\ s[Len(s)] \in Whitespace THEN RStrip(SubSeq(s, 1, Len(s) - 1)) ELSE s

\* s.strip()
Strip(s) == RStrip(LStrip(s))

\* a chunk that starts at the line of its marker: no line before it is taken
OrderStartSameLine(t, start) ==
    LET prev_nl == RFind(t, "\n", 0, start) IN
    IF prev_nl # -1 THEN prev_nl + 1 ELSE 0

\* a chunk that starts where the text starts, whatever line the marker is on
OrderStartAtTextStart(t, start) == 0

\* order_start for the match that starts at offset start: the start of the
\* line before the marker's line, or 0
OrderStart(t, start) ==
    LET prev_nl == RFind(t, "\n", 0, start) IN
    IF prev_nl # -1
    THEN LET prev_prev_nl == RFind(t, "\n", 0, prev_nl) IN
         IF prev_prev_nl # -1 THEN prev_prev_nl + 1 ELSE 0
    ELSE 0

split_orders(t) ==
    LET matches == FindIter(t) IN
    [i \in 1..Len(matches) |->
        LET start       == matches[i]
            order_start == OrderStart(t, start)
            end         == IF i + 1 <= Len(matches) THEN matches[i + 1] ELSE Len(t)
        IN  Strip(Slice(t, order_start, end))]

(***************************************************************************)
(* eurofiel_resumen_pedidos.parse_order and parse_pdf                      *)
(***************************************************************************)
\* s.splitlines(): the lines of s without their line ends; a final line end
\* opens no further line
SplitLines(s) ==
    LET ends == Sorted({k \in 0..(Len(s) - 1) : s[k + 1] = "\n"}
                       \cup (IF s # <<>> /\ s[Len(s)] # "\n" THEN {Len(s)} ELSE {}))
    IN  [n \in 1..Len(ends) |->
            SubSeq(s, (IF n = 1 THEN 0 ELSE ends[n - 1] + 1) + 1, ends[n])]

\* [ln for ln in t.splitlines() if ln.strip()]
NonBlankLines(t) == SelectSeq(SplitLines(t), LAMBDA ln : Strip(ln) # <<>>)

\* the match of \S+ at offset k: the characters up to the next white space
NonWsRun(t, k) == Slice(t, k, NonWsEnd(t, k))

\* group 1 of r"Nº Pedido\s*:\s*(\S+)" when the pattern matches at offset k,
\* or "" when it does not: both \s* are greedy and \S+ takes what follows
PedidoGroupAt(t, k) ==
    LET e == MarkerEnd(t, k) IN
    IF e = -1 THEN <<>> ELSE NonWsRun(t, SkipWs(t, e))

\* search(r"Nº Pedido\s*:\s*(\S+)"): group 1 of the leftmost match, stripped,
\* or "" when nothing matches
SearchPedido(t) ==
    LET hits == {k \in 0..(Len(t) - 1) : PedidoGroupAt(t, k) # <<>>} IN
    IF hits = {} THEN <<>> ELSE Strip(PedidoGroupAt(t, Min(hits)))

RECURSIVE LastDetail(_)
\* the same loop without its break: the last line parse_detail_line accepts
LastDetail(lines) ==
    IF lines = <<>> THEN <<<<>>, <<>>, <<>>>>
    ELSE LET p == parse_detail_line(lines[Len(lines)]) IN
         IF p # None THEN p ELSE LastDetail(SubSeq(lines, 1, Len(lines) - 1))

RECURSIVE FirstDetail(_)
\* the loop over lines that stops at the first line parse_detail_line accepts
FirstDetail(lines) ==
    IF lines = <<>> THEN <<<<>>, <<>>, <<>>>>
    ELSE LET p == parse_detail_line(Head(lines)) IN
         IF p # None THEN p ELSE FirstDetail(Tail(lines))

\* The row of one chunk.  FECHA_ENTREGA, PAIS, DESCRIPCION and TOTAL_UNIDADES
\* come from four more searches of the chunk that neither read nor change
\* the fields below; they are not carried.
parse_order(order_text) ==
    LET lines  == NonBlankLines(order_text)
        tipo   == IF lines # <<>> THEN Strip(lines[1]) ELSE <<>>
        pedido == SearchPedido(order_text)
        det    == FirstDetail(lines)
    IN  [TIPO |-> tipo, PEDIDO |-> pedido,
         MODELO |-> det[1], PATRON |-> det[2], PRECIO |-> det[3]]

\* the rows kept without the filter on PEDIDO
KeepEveryRow(rs) == rs

\* rows = [r for r in rows if r.get("PEDIDO")]
DropRowsWithoutPedido(rs) == SelectSeq(rs, LAMBDA r : r.PEDIDO # <<>>)

(***************************************************************************)
(* Inputs of the order specification: the text is put together from these  *)
(* pieces                                                                  *)
(***************************************************************************)
MaxPieces == 5

LabelLine == <<"P", "E", "D", "I", "D", "O", "\n">>

MarkerA1 == PedidoLit \o <<":", " ", "A", "1">>

MarkerBare == PedidoLit \o <<" ", ":">>

TextPool == { LabelLine, MarkerA1, MarkerBare, <<"B", "2">>, <<"\n">>, <<" ">> }

InitOrders ==
    /\ pc = "input"
    /\ fed = 0
    /\ line = <<>>
    /\ parsed = None
    /\ full_text = <<>>
    /\ orders = <<>>
    /\ rows = <<>>
    /\ pages = <<>>
    /\ page_rows = <<>>
    /\ df_grouped = {}
    /\ p_raw = <<>>
    /\ precio_steps = <<>>
    /\ grammar = ""
    /\ OthersIdle

\* one more piece of page text
AppendText ==
    /\ pc = "input"
    /\ fed < MaxPieces
    /\ \E piece \in TextPool : full_text' = full_text \o piece
    /\ fed' = fed + 1
    /\ UNCHANGED <<pc, detailVars, orders, rows, eciVars, priceVars, mapVars, hdrVars, cliVars>>

\* parse_pdf from the joined text on
CallParsePdf ==
    /\ pc = "input"
    /\ orders' = split_orders(full_text)
    /\ rows' = DropRowsWithoutPedido([i \in 1..Len(orders') |-> parse_order(orders'[i])])
    /\ pc' = "done"
    /\ UNCHANGED <<fed, detailVars, full_text, eciVars, priceVars, mapVars, hdrVars, cliVars>>

NextOrders == AppendText \/ CallParsePdf

SpecOrders == InitOrders /\ [][NextOrders]_vars

(***************************************************************************)
(* Properties of split_orders and of the summary pipeline                  *)
(***************************************************************************)
\* the offsets at which an order-number marker starts, in increasing order
Markers(t) == Sorted({k \in 0..(Len(t) - 1) : LitAt(t, k, PedidoLit) /\ MarkerEnd(t, k) # -1})

\* the offset at which the line holding offset k starts
LineStart(t, k) == Max({j \in 0..k : j = 0 \/ t[j] = "\n"})

\* the offset at which the line before the line of offset k starts; 0 when
\* offset k is on the first line
PrevLineStart(t, k) ==
    LET a == LineStart(t, k) IN IF a = 0 THEN 0 ELSE LineStart(t, a - 1)

\* s without its white space
Squeeze(s) == SelectSeq(s, LAMBDA ch : ch \notin Whitespace)

\* C4: a text with N order-number markers gives exactly N chunks, in marker
\* order, and every chunk holds exactly one marker, also when two markers
\* are on one line or on consecutive lines.
C4_OneMarkerPerChunk ==
    pc = "done" =>
        /\ Len(orders) = Len(Markers(full_text))
        /\ \A i \in 1..Len(orders) : Len(Markers(orders[i])) = 1

\* C5 as stated: the chunks put one after the other give back the text,
\* white space apart: nothing before the first chunk is lost and nothing
\* is in two chunks.  (Stated here for the texts whose chunks hold one
\* marker each.)
C5_ChunksGiveBackText ==
    (/\ pc = "done"
     /\ orders # <<>>
     /\ \A i \in 1..Len(orders) : Len(Markers(orders[i])) = 1)
    => Squeeze(Concat(orders)) = Squeeze(full_text)

\* C5 amended: chunk i is the text from the start of the line before the
\* line of marker i (offset 0 when the marker is on the first line) up to
\* marker i+1 (the end of the text for the last marker), trimmed.  So the
\* chunks leave no gap from the first chunk's start to the end of the text,
\* the text before that start is in no chunk, and what lies between the
\* start of chunk i+1 and marker i+1 is in chunk i and in chunk i+1.
C5_ChunksAreBackdatedSlices ==
    pc = "done" =>
        LET t  == full_text
            ms == Markers(t)
        IN  /\ Len(orders) = Len(ms)
            /\ \A i \in 1..Len(ms) :
                  orders[i] = Strip(Slice(t, PrevLineStart(t, ms[i]),
                                          IF i < Len(ms) THEN ms[i + 1] ELSE Len(t)))

\* two orders, each with its label line: the second label line is the last
\* line of the first chunk and the first line of the second
C5_Witness ==
    /\ pc = "done"
    /\ Len(orders) = 2
    /\ LET ms == Markers(full_text)
           s2 == PrevLineStart(full_text, ms[2])
       IN  /\ ms[1] < s2
           /\ LitAt(full_text, s2, <<"P", "E", "D", "I", "D", "O">>)
           /\ LitAt(orders[2], 0, <<"P", "E", "D", "I", "D", "O">>)
           /\ LitAt(orders[1], Len(orders[1]) - 6, <<"P", "E", "D", "I", "D", "O">>)

\* a chunk has a recoverable order number when one of its markers is
\* followed, white space apart, by some text
Recoverable(chunk) ==
    \E k \in 0..(Len(chunk) - 1) :
        /\ MarkerEnd(chunk, k) # -1
        /\ \E j \in (MarkerEnd(chunk, k) + 1)..Len(chunk) : chunk[j] \notin Whitespace

\* C6: in the summary pipeline every row has a non-empty PEDIDO, a chunk
\* without a recoverable order number gives no row (there are as many rows
\* as chunks with one), and a text without a marker gives no row.
C6_NoRowWithoutPedido ==
    pc = "done" =>
        /\ \A i \in 1..Len(rows) : rows[i].PEDIDO # <<>>
        /\ Len(rows) = Cardinality({i \in 1..Len(orders) : Recoverable(orders[i])})
        /\ (Markers(full_text) = <<>> => rows = <<>>)

\* two chunks, the second with a marker but nothing after its colon: one row
C6_Witness ==
    /\ pc = "done"
    /\ Len(orders) = 2
    /\ Recoverable(orders[1])
    /\ ~Recoverable(orders[2])
    /\ Len(rows) = 1

(***************************************************************************)
(* eci_parser.parse_page_eci                                               *)
(***************************************************************************)
UpperLetters ==
    <<"A", "B", "C", "D", "E", "F", "G", "H", "I", "J", "K", "L", "M", "N", "O", "P", "Q",
      "R", "S", "T", "U", "V", "W", "X", "Y", "Z", "Á", "É", "Í", "Ó", "Ú", "Ü", "Ñ">>

LowerLetters ==
    <<"a", "b", "c", "d", "e", "f", "g", "h", "i", "j", "k", "l", "m", "n", "o", "p", "q",
      "r", "s", "t", "u", "v", "w", "x", "y", "z", "á", "é", "í", "ó", "ú", "ü", "ñ">>

\* [A-ZÁÉÍÓÚÜÑ]
UpperClass == {UpperLetters[i] : i \in 1..Len(UpperLetters)}

\* [A-Z0-9]
AsciiAlnum == {UpperLetters[i] : i \in 1..26} \cup Digits

\* [\d.,]
NumChars == Digits \cup {".", ","}

\* [0-9 ]
DigitOrBlank == Digits \cup {" "}

\* s.lower()
Lower(s) ==
    [i \in 1..Len(s) |->
        IF s[i] \in UpperClass
        THEN LowerLetters[CHOOSE k \in 1..Len(UpperLetters) : UpperLetters[k] = s[i]]
        ELSE s[i]]

\* s.upper()
Upper(s) ==
    [i \in 1..Len(s) |->
        IF \E k \in 1..Len(LowerLetters) : LowerLetters[k] = s[i]
        THEN UpperLetters[CHOOSE k \in 1..Len(LowerLetters) : LowerLetters[k] = s[i]]
        ELSE s[i]]

\* the document types the page is searched for, in lower case
TipoWords ==
    { <<"p", "e", "d", "i", "d", "o">>,
      <<"r", "e", "p", "o", "s", "i", "c", "i", "o", "n">>,
      <<"r", "e", "p", "o", "s", "i", "c", "i", "ó", "n">>,
      <<"a", "n", "u", "l", "a", "c", "i", "o", "n", " ", "p", "e", "d", "i", "d", "o">>,
      <<"a", "n", "u", "l", "a", "c", "i", "ó", "n", " ", "p", "e", "d", "i", "d", "o">> }

DptoLit == <<"D", "p", "t", "o", ".", " ", "v", "e", "n", "t", "a">>

FechaLit == <<"F", "e", "c", "h", "a", " ", "E", "n", "t", "r", "e", "g", "a">>

SucPideLit ==
    <<"S", "u", "c", "u", "r", "s", "a", "l", " ", "D", "e", "s", "t", "i", "n", "o", " ",
      "q", "u", "e", " ", "P", "i", "d", "e">>

SucEntregaLit ==
    <<"S", "u", "c", "u", "r", "s", "a", "l", " ", "d", "e", " ",
      "E", "n", "t", "r", "e", "g", "a">>

NoiseLit == <<"W", "O", "M", "A", "N", " ", "F", "I", "E", "S", "T", "A">>

MinNumTokens == 6

QtyFromEnd == 6

PriceFromEnd == 4

DescFirstIdx == 5

ModelCodeMinLen == 5

ColorCodeLen == 3

MinInfoParts == 3

RECURSIVE RunEnd(_, _, _)
\* where a greedy run of characters of class cls that starts at offset k stops
RunEnd(t, k, cls) ==
    IF k < Len(t) /\ t[k + 1] \in cls THEN RunEnd(t, k + 1, cls) ELSE k

RECURSIVE FirstTipo(_)
\* the loop that takes the first line that is a document type, in upper case
FirstTipo(lines) ==
    IF lines = <<>> THEN <<>>
    ELSE IF Lower(Head(lines)) \in TipoWords THEN Upper(Head(lines))
    ELSE FirstTipo(Tail(lines))

\* group 1 of lit + r"\s+(\d+)" when the pattern matches at offset k, or ""
DigitsGroupAt(t, lit, k) ==
    LET b == SkipWs(t, k + Len(lit)) IN
    IF LitAt(t, k, lit) /\ b > k + Len(lit)
    THEN Slice(t, b, RunEnd(t, b, Digits))
    ELSE <<>>

\* search(lit + r"\s+(\d+)"): group 1 of the leftmost match, stripped, or ""
SearchDigits(t, lit) ==
    LET hits == {k \in 0..(Len(t) - 1) : DigitsGroupAt(t, lit, k) # <<>>} IN
    IF hits = {} THEN <<>> ELSE Strip(DigitsGroupAt(t, lit, Min(hits)))

\* whether \d{2}/\d{2}/\d{4} matches at offset b
DateAt(t, b) ==
    /\ b + 10 <= Len(t)
    /\ \A i \in {1, 2, 4, 5, 7, 8, 9, 10} : t[b + i] \in Digits
    /\ t[b + 3] = "/"
    /\ t[b + 6] = "/"

\* search(lit + r"\s+(\d{2}/\d{2}/\d{4})"): group 1 of the leftmost match,
\* stripped, or ""
SearchDate(t, lit) ==
    LET hits == {k \in 0..(Len(t) - 1) :
                    LET b == SkipWs(t, k + Len(lit)) IN
                    LitAt(t, k, lit) /\ b > k + Len(lit) /\ DateAt(t, b)}
    IN  IF hits = {} THEN <<>>
        ELSE LET b == SkipWs(t, Min(hits) + Len(lit)) IN Strip(Slice(t, b, b + 10))

\* whether r"\s+[A-ZÁÉÍÓÚÜÑ]" matches at offset p
BlanksThenUpper(t, p) ==
    LET q == SkipWs(t, p) IN q > p /\ q < Len(t) /\ t[q + 1] \in UpperClass

\* the ends the group ([0-9 ]+) can have when it starts at offset g
BranchEnds(t, g) == {p \in (g + 1)..RunEnd(t, g, DigitOrBlank) : BlanksThenUpper(t, p)}

\* the starts of the group from which lit + r"\s+([0-9 ]+)\s+[A-ZÁÉÍÓÚÜÑ]"
\* matches at offset k: the first \s+ ends somewhere in the white space that
\* follows the literal
BranchStarts(t, lit, k) ==
    IF ~LitAt(t, k, lit) THEN {}
    ELSE {g \in (k + Len(lit) + 1)..SkipWs(t, k + Len(lit)) : BranchEnds(t, g) # {}}

\* search(lit + r"\s+([0-9 ]+)\s+[A-ZÁÉÍÓÚÜÑ]"): both \s+ and the group are
\* greedy, so in the leftmost match the group starts as late and ends as
\* late as a match allows
SearchBranch(t, lit) ==
    LET hits == {k \in 0..(Len(t) - 1) : BranchStarts(t, lit, k) # {}} IN
    IF hits = {} THEN <<>>
    ELSE LET g == Max(BranchStarts(t, lit, Min(hits))) IN
         Strip(Slice(t, g, Max(BranchEnds(t, g))))

\* re.match(r"^\d+\s+\d{13}\s", ln)
DetailStart(ln) ==
    LET d == RunEnd(ln, 0, Digits)
        w == SkipWs(ln, d)
    IN  /\ d > 0
        /\ w > d
        /\ w + EanLen < Len(ln)
        /\ \A i \in 1..EanLen : ln[w + i] \in Digits
        /\ ln[w + EanLen + 1] \in Whitespace

\* re.match(r"^[A-Z0-9]{5,}\s+\d{3}\s", ln)
ModelColorStart(ln) ==
    LET a == RunEnd(ln, 0, AsciiAlnum)
        w == SkipWs(ln, a)
    IN  /\ a >= ModelCodeMinLen
        /\ w > a
        /\ w + ColorCodeLen < Len(ln)
        /\ \A i \in 1..ColorCodeLen : ln[w + i] \in Digits
        /\ ln[w + ColorCodeLen + 1] \in Whitespace

\* lit in ln
Contains(ln, lit) == \E k \in 0..(Len(ln) - Len(lit)) : LitAt(ln, k, lit)

\* re.fullmatch(r"[\d.,]+", tok)
IsNumTok(tok) == tok # <<>> /\ \A i \in 1..Len(tok) : tok[i] \in NumChars

\* re.fullmatch(r"[A-Z0-9]+", tok)
IsModelTok(tok) == tok # <<>> /\ \A i \in 1..Len(tok) : tok[i] \in AsciiAlnum

RECURSIVE StripTrailingDigits(_)
\* re.sub(r"\d+$", "", s)
StripTrailingDigits(s) ==
    IF s # <<>> /\ s[Len(s)] \in Digits
    THEN StripTrailingDigits(SubSeq(s, 1, Len(s) - 1))
    ELSE s

\* precio = p_bruto_raw.replace(",", ".") : the Eurofiel normalization put
\* where the ECI one belongs
NormalizePriceCommaOnly(tok) == Replace(tok, ",", ".")

\* precio = p_bruto_raw.replace(".", "").replace(",", ".")
NormalizePriceEci(tok) == Replace(Remove(tok, "."), ",", ".")

\* the 0-based indices of the numeric tokens of parts, in increasing order
NumIndices(parts) ==
    SelectSeq([k \in 1..Len(parts) |-> k - 1], LAMBDA idx : IsNumTok(parts[idx + 1]))

\* the second description line after line i (1-based) of lines, or ""
ExtraDesc(lines, i) ==
    IF i + 1 <= Len(lines)
    THEN LET next_ln == lines[i + 1] IN
         IF /\ ~DetailStart(next_ln)
            /\ ~ModelColorStart(next_ln)
            /\ ~Contains(next_ln, NoiseLit)
         THEN Strip(next_ln)
         ELSE <<>>
    ELSE <<>>

\* <<modelo, color>> read from the line at 1-based position j of lines
ModelColor(lines, j) ==
    IF j <= Len(lines)
    THEN LET info_parts == Split(lines[j]) IN
         IF Len(info_parts) >= MinInfoParts /\ IsModelTok(info_parts[1])
         THEN LET color_code  == info_parts[2]
                  color_name1 == info_parts[3]
                  color_name2 == IF Len(info_parts) >= 4
                                 THEN StripTrailingDigits(info_parts[4])
                                 ELSE <<>>
              IN  <<info_parts[1],
                    Join(<<" ">>, SelectSeq(<<color_code, color_name1, color_name2>>,
                                            LAMBDA x : x # <<>>))>>
         ELSE <<<<>>, <<>>>>
    ELSE <<<<>>, <<>>>>

\* the header fields of one page
PageHeader(text, lines) ==
    LET suc == SearchBranch(text, SucPideLit) IN
    [TIPO          |-> FirstTipo(lines),
     N_PEDIDO      |-> SearchDigits(text, PedidoLit),
     DEPARTAMENTO  |-> SearchDigits(text, DptoLit),
     FECHA_ENTREGA |-> SearchDate(text, FechaLit),
     SUC_ENTREGA   |-> IF suc # <<>> THEN suc ELSE SearchBranch(text, SucEntregaLit)]

\* the body of the loop over lines for line i (1-based): the rows it appends
PageRowsAt(lines, i, hdr) ==
    LET ln          == lines[i]
        parts       == Split(ln)
        num_indices == NumIndices(parts)
    IN  IF ~DetailStart(ln) THEN <<>>
        ELSE IF Len(num_indices) < MinNumTokens THEN <<>>
        ELSE LET qty_idx     == num_indices[Len(num_indices) - QtyFromEnd + 1]
                 p_bruto_idx == num_indices[Len(num_indices) - PriceFromEnd + 1]
                 desc        == Join(<<" ">>, SubSeq(parts, DescFirstIdx + 1, qty_idx))
                 extra_desc  == ExtraDesc(lines, i)
                 j           == i + 1 + (IF extra_desc # <<>> THEN 1 ELSE 0)
                 mc          == ModelColor(lines, j)
             IN  << [TIPO           |-> hdr.TIPO,
                     N_PEDIDO       |-> hdr.N_PEDIDO,
                     DEPARTAMENTO   |-> hdr.DEPARTAMENTO,
                     DESCRIPCION    |-> IF extra_desc # <<>>
                                        THEN desc \o <<" ">> \o extra_desc
                                        ELSE desc,
                     MODELO         |-> mc[1],
                     COLOR          |-> mc[2],
                     PRECIO         |-> NormalizePriceEci(parts[p_bruto_idx + 1]),
                     FECHA_ENTREGA  |-> hdr.FECHA_ENTREGA,
                     SUC_ENTREGA    |-> hdr.SUC_ENTREGA,
                     TOTAL_UNIDADES |-> parts[qty_idx + 1]] >>

RECURSIVE PageRowsFrom(_, _, _)
PageRowsFrom(lines, i, hdr) ==
    IF i > Len(lines) THEN <<>>
    ELSE PageRowsAt(lines, i, hdr) \o PageRowsFrom(lines, i + 1, hdr)

\* lines = [ln.strip() for ln in text.splitlines() if ln.strip()]
PageLines(text) ==
    LET raw == NonBlankLines(text) IN [i \in 1..Len(raw) |-> Strip(raw[i])]

parse_page_eci(text) ==
    LET lines == PageLines(text) IN PageRowsFrom(lines, 1, PageHeader(text, lines))

(***************************************************************************)
(* eci_parser.parse_pdf_eci                                                *)
(***************************************************************************)
DigitSeq == <<"0", "1", "2", "3", "4", "5", "6", "7", "8", "9">>

RECURSIVE IntOf(_)
\* the number a run of digits writes; 0 for the empty run
IntOf(s) ==
    IF s = <<>> THEN 0
    ELSE IntOf(SubSeq(s, 1, Len(s) - 1)) * 10
         + (CHOOSE d \in 0..9 : DigitSeq[d + 1] = s[Len(s)])

\* pd.to_numeric(tok, errors="coerce") then .fillna(0).astype(int) for a token
\* of digits, dots and commas: a token with a comma, with two dots or without
\* a digit is not a number and becomes 0; a decimal is cut at its dot
ToInt(tok) ==
    LET dots == {i \in 1..Len(tok) : tok[i] = "."} IN
    IF \/ \E i \in 1..Len(tok) : tok[i] \notin Digits \cup {"."}
       \/ Cardinality(dots) > 1
       \/ \A i \in 1..Len(tok) : tok[i] \notin Digits
    THEN 0
    ELSE IF dots = {} THEN IntOf(tok)
    ELSE IntOf(SubSeq(tok, 1, Min(dots) - 1))

\* the values of the nine group_cols of a row
GroupKey(r) ==
    [TIPO          |-> r.TIPO,
     N_PEDIDO      |-> r.N_PEDIDO,
     DEPARTAMENTO  |-> r.DEPARTAMENTO,
     DESCRIPCION   |-> r.DESCRIPCION,
     MODELO        |-> r.MODELO,
     COLOR         |-> r.COLOR,
     PRECIO        |-> r.PRECIO,
     FECHA_ENTREGA |-> r.FECHA_ENTREGA,
     SUC_ENTREGA   |-> r.SUC_ENTREGA]

RECURSIVE SumUnits(_, _)
\* the sum of TOTAL_UNIDADES, as numbers, over the rows of all_rows with key
SumUnits(all_rows, key) ==
    IF all_rows = <<>> THEN 0
    ELSE (IF GroupKey(Head(all_rows)) = key THEN ToInt(Head(all_rows).TOTAL_UNIDADES) ELSE 0)
         + SumUnits(Tail(all_rows), key)

\* an aggregation that keeps, for every key, the units of the last row
\* with that key instead of the sum
GroupLast(all_rows) ==
    { key @@ [TOTAL_UNIDADES |->
                 ToInt(all_rows[Max({i \in 1..Len(all_rows) : GroupKey(all_rows[i]) = key})]
                          .TOTAL_UNIDADES)] :
        key \in {GroupKey(all_rows[i]) : i \in 1..Len(all_rows)} }

\* df.groupby(group_cols, as_index=False)["TOTAL_UNIDADES"].sum(): one row
\* per distinct key.  The frame is kept as the set of its rows; the order
\* pandas gives them (sorted by key) is not carried.  No rows give the empty
\* frame.
GroupSum(all_rows) ==
    { key @@ [TOTAL_UNIDADES |-> SumUnits(all_rows, key)] :
        key \in {GroupKey(all_rows[i]) : i \in 1..Len(all_rows)} }

(***************************************************************************)
(* Inputs of the ECI document specification: pages are put together from   *)
(* whole lines                                                             *)
(***************************************************************************)
MaxLines == 4

MaxPages == 2

\* the header of an order: type, order number, department, delivery date,
\* delivery branch
HeaderBlock ==
    <<"P", "e", "d", "i", "d", "o", "\n">>
    \o PedidoLit \o <<" ", "7", "4", "2", "\n">>
    \o DptoLit \o <<" ", "1", "1", "8", "\n">>
    \o FechaLit \o <<" ", "0", "5", "/", "1", "1", "/", "2", "0", "2", "5", "\n">>
    \o SucEntregaLit \o <<" ", "0", "1", " ", "0", "0", "5", "0", " ", "M", "A", "D", "\n">>

\* the order-number line of another order
OtherPedidoLine == PedidoLit \o <<" ", "8", "1", "5", "\n">>

\* "1 8447571299747 S R C VEST 134 1 53,000 53,000 72,900 7102,00"
DetailLine ==
    <<"1", " ">> \o Ean
    \o <<" ", "S", " ", "R", " ", "C", " ", "V", "E", "S", "T", " ", "1", "3", "4", " ", "1", " ",
         "5", "3", ",", "0", "0", "0", " ", "5", "3", ",", "0", "0", "0", " ",
         "7", "2", ",", "9", "0", "0", " ", "7", "1", "0", "2", ",", "0", "0", "\n">>

\* a second description line
ContinuationLine ==
    <<"P", "U", "N", "T", "O", " ", "A", "S", "I", "M", " ", "F", "A", "L", "D", "A", "\n">>

\* "47D262G 983 PRINT NEGRO003 3"
ModelColorLine ==
    <<"4", "7", "D", "2", "6", "2", "G", " ", "9", "8", "3", " ", "P", "R", "I", "N", "T", " ",
      "N", "E", "G", "R", "O", "0", "0", "3", " ", "3", "\n">>

NoiseLine == NoiseLit \o <<"\n">>

LinePool == { HeaderBlock, OtherPedidoLine, DetailLine, ContinuationLine, ModelColorLine, NoiseLine }

InitEci ==
    /\ pc = "input"
    /\ fed = 0
    /\ line = <<>>
    /\ parsed = None
    /\ full_text = <<>>
    /\ orders = <<>>
    /\ rows = <<>>
    /\ pages = <<>>
    /\ page_rows = <<>>
    /\ df_grouped = {}
    /\ p_raw = <<>>
    /\ precio_steps = <<>>
    /\ grammar = ""
    /\ OthersIdle

\* the document gets one more page; page.extract_text() of a page without
\* text gives ""
NewPage ==
    /\ pc = "input"
    /\ Len(pages) < MaxPages
    /\ pages' = Append(pages, <<>>)
    /\ UNCHANGED <<pc, fed, detailVars, orderVars, page_rows, df_grouped, priceVars, mapVars, hdrVars, cliVars>>

\* the last page gets one more line
AppendLine ==
    /\ pc = "input"
    /\ pages # <<>>
    /\ fed < MaxLines
    /\ \E ln \in LinePool : pages' = [pages EXCEPT ![Len(pages)] = @ \o ln]
    /\ fed' = fed + 1
    /\ UNCHANGED <<pc, detailVars, orderVars, page_rows, df_grouped, priceVars, mapVars, hdrVars, cliVars>>

\* parse_pdf_eci: every page through parse_page_eci, the rows of all pages
\* one after the other, then the grouping
CallParsePdfEci ==
    /\ pc = "input"
    /\ page_rows' = [p \in 1..Len(pages) |-> parse_page_eci(pages[p])]
    /\ df_grouped' = GroupSum(Concat(page_rows'))
    /\ pc' = "done"
    /\ UNCHANGED <<fed, detailVars, orderVars, pages, priceVars, mapVars, hdrVars, cliVars>>

NextEci == NewPage \/ AppendLine \/ CallParsePdfEci

SpecEci == InitEci /\ [][NextEci]_vars

(***************************************************************************)
(* Inputs of the ECI detail-line specification: one page of one line, put  *)
(* together token by token after the line index and the EAN                *)
(***************************************************************************)
MaxEciTail == 7

\* the line index and the EAN, alone or followed by the series, reference
\* and colour-code columns
EciPrefixPool ==
    { <<"1", " ">> \o Ean,
      <<"1", " ">> \o Ean \o <<" ", "S", " ", "R", " ", "C">> }

\* a word of the description, a quantity, a price, a price with a
\* thousands dot
EciTokenPool ==
    { <<"V", "E", "S", "T">>,
      <<"1", "3", "4">>,
      <<"5", "3", ",", "0", "0", "0">>,
      <<"1", ".", "0", "5", "3", ",", "0", "0">> }

InitEciLine ==
    /\ pc = "input"
    /\ fed = 0
    /\ line = <<>>
    /\ parsed = None
    /\ full_text = <<>>
    /\ orders = <<>>
    /\ rows = <<>>
    /\ pages \in {<<prefix>> : prefix \in EciPrefixPool}
    /\ page_rows = <<>>
    /\ df_grouped = {}
    /\ p_raw = <<>>
    /\ precio_steps = <<>>
    /\ grammar = ""
    /\ OthersIdle

\* the line of the page gets one more token
AppendEciToken ==
    /\ pc = "input"
    /\ fed < MaxEciTail
    /\ \E tok \in EciTokenPool : pages' = <<pages[1] \o <<" ">> \o tok>>
    /\ fed' = fed + 1
    /\ UNCHANGED <<pc, detailVars, orderVars, page_rows, df_grouped, priceVars, mapVars, hdrVars, cliVars>>

\* rows = parse_page_eci(text) for the one page
CallParsePageEci ==
    /\ pc = "input"
    /\ page_rows' = <<parse_page_eci(pages[1])>>
    /\ pc' = "done"
    /\ UNCHANGED <<fed, detailVars, orderVars, pages, df_grouped, priceVars, mapVars, hdrVars, cliVars>>

NextEciLine == AppendEciToken \/ CallParsePageEci

SpecEciLine == InitEciLine /\ [][NextEciLine]_vars

(***************************************************************************)
(* Inputs of the price specification: a raw price token, put together      *)
(* character by character, normalized and normalized again                 *)
(***************************************************************************)
MaxPriceLen == 4

PriceChars == {"5", "3", ",", "."}

InitPrice ==
    /\ pc = "input"
    /\ fed = 0
    /\ line = <<>>
    /\ parsed = None
    /\ full_text = <<>>
    /\ orders = <<>>
    /\ rows = <<>>
    /\ pages = <<>>
    /\ page_rows = <<>>
    /\ df_grouped = {}
    /\ p_raw = <<>>
    /\ precio_steps = <<>>
    /\ grammar = ""
    /\ OthersIdle

\* the token gets one more character
AppendPriceChar ==
    /\ pc = "input"
    /\ Len(p_raw) < MaxPriceLen
    /\ \E ch \in PriceChars : p_raw' = Append(p_raw, ch)
    /\ UNCHANGED <<pc, fed, detailVars, orderVars, eciVars, precio_steps, grammar, mapVars, hdrVars, cliVars>>

\* what the next normalization is applied to: the raw token, then the
\* result before
PriceOperand == IF precio_steps = <<>> THEN p_raw ELSE precio_steps[Len(precio_steps)]

\* precio = p_neto.replace(",", "."), on the raw token and once more on its
\* result
ApplyNormalizeEurofiel ==
    /\ p_raw # <<>>
    /\ grammar \in {"", "eurofiel"}
    /\ Len(precio_steps) < 2
    /\ precio_steps' = Append(precio_steps, NormalizePriceEurofiel(PriceOperand))
    /\ grammar' = "eurofiel"
    /\ pc' = "done"
    /\ UNCHANGED <<fed, detailVars, orderVars, eciVars, p_raw, mapVars, hdrVars, cliVars>>

\* precio = p_bruto_raw.replace(".", "").replace(",", "."), on the raw token
\* and once more on its result
ApplyNormalizeEci ==
    /\ p_raw # <<>>
    /\ grammar \in {"", "eci"}
    /\ Len(precio_steps) < 2
    /\ precio_steps' = Append(precio_steps, NormalizePriceEci(PriceOperand))
    /\ grammar' = "eci"
    /\ pc' = "done"
    /\ UNCHANGED <<fed, detailVars, orderVars, eciVars, p_raw, mapVars, hdrVars, cliVars>>

NextPrice == AppendPriceChar \/ ApplyNormalizeEurofiel \/ ApplyNormalizeEci

SpecPrice == InitPrice /\ [][NextPrice]_vars

(***************************************************************************)
(* Properties of the ECI pipeline                                          *)
(***************************************************************************)
\* the rows of all pages, in page order
AllRows == Concat(page_rows)

\* C7: no row returned by parse_page_eci or parse_pdf_eci has an empty
\* N_PEDIDO, also when a page holds a qualifying detail line and no
\* "Nº Pedido" header.
C7_NoRowWithoutNPedido ==
    pc = "done" =>
        /\ \A i \in 1..Len(AllRows) : AllRows[i].N_PEDIDO # <<>>
        /\ \A r \in df_grouped : r.N_PEDIDO # <<>>

HeaderFields == {"TIPO", "N_PEDIDO", "DEPARTAMENTO", "FECHA_ENTREGA", "SUC_ENTREGA"}

\* the value of header field f that page q carries, "" when it carries none
HeaderOn(q, f) == PageHeader(pages[q], PageLines(pages[q]))[f]

\* the first non-empty value of header field f on pages 1..p, "" when no
\* such page carries one
FirstSeen(p, f) ==
    LET qs == {q \in 1..p : HeaderOn(q, f) # <<>>} IN
    IF qs = {} THEN <<>> ELSE HeaderOn(Min(qs), f)

\* C8: header fields persist across the pages of a document by first-wins:
\* every row of page p carries, for each header field, the first non-empty
\* value seen on pages 1..p, so a detail line on a later page without header
\* text has the values of the earlier pages.
C8_HeaderFirstWins ==
    pc = "done" =>
        \A p \in 1..Len(page_rows) : \A i \in 1..Len(page_rows[p]) : \A f \in HeaderFields :
            page_rows[p][i][f] = FirstSeen(p, f)

\* the 1-based positions of the numeric-shaped tokens of t (digits, dots and
\* commas only), in increasing order
NumericPositions(t) == Sorted({k \in 1..Len(t) : t[k] # <<>> /\ Chars(t[k]) \subseteq Digits \cup {".", ","}})

\* the price with its dots dropped and then its commas turned into dots
DotsOutCommaToDot(tok) ==
    LET kept == SelectSeq(tok, LAMBDA ch : ch # ".") IN
    [i \in 1..Len(kept) |-> IF kept[i] = "," THEN "." ELSE kept[i]]

\* C9: an ECI line that starts with an integer followed by a 13-digit code
\* is skipped when it has fewer than 6 numeric-shaped tokens; otherwise the
\* one row it gives has the 6th-from-last numeric token as quantity and the
\* normalized 4th-from-last numeric token as price.
C9_QuantityAndPriceFromEnd ==
    pc = "done" =>
        LET t  == Split(pages[1])
            ns == NumericPositions(t)
        IN  (Len(t) >= 2 /\ AllDigits(t[1]) /\ AllDigits(t[2]) /\ Len(t[2]) = 13) =>
                IF Len(ns) < 6 THEN page_rows[1] = <<>>
                ELSE /\ Len(page_rows[1]) = 1
                     /\ page_rows[1][1].TOTAL_UNIDADES = t[ns[Len(ns) - 5]]
                     /\ page_rows[1][1].PRECIO = DotsOutCommaToDot(t[ns[Len(ns) - 3]])

\* a line with the line index, the EAN, the word VEST and six more numeric
\* tokens, 134 first and 53,000 third, gave quantity 134 and price 53.000
C9_Witness ==
    /\ pc = "done"
    /\ Len(pages) = 1
    /\ Len(page_rows) = 1
    /\ Len(page_rows[1]) = 1
    /\ page_rows[1][1].TOTAL_UNIDADES = <<"1", "3", "4">>
    /\ page_rows[1][1].PRECIO = <<"5", "3", ".", "0", "0", "0">>
    /\ page_rows[1][1].DESCRIPCION = <<"V", "E", "S", "T">>
    /\ Len(NumericPositions(Split(pages[1]))) = 8

\* C10 as stated: in both grammars, normalizing a normalized price gives
\* the same price, for every price token.
C10_IdempotentBothGrammars ==
    Len(precio_steps) = 2 => precio_steps[2] = precio_steps[1]

\* C10: the Eurofiel normalization (comma to dot) gives the same price when
\* applied to its own result, for every token; the ECI normalization (dots
\* dropped, then comma to dot) does so exactly for the tokens without a
\* comma: the dot it writes for a comma is dropped by the next application.
C10_IdempotentUnlessEciComma ==
    Len(precio_steps) = 2 =>
        (precio_steps[2] = precio_steps[1] <=> (grammar = "eurofiel" \/ "," \notin Chars(p_raw)))

\* "5,3" went through the ECI normalization twice: "5.3", then "53"
C10_Witness ==
    /\ grammar = "eci"
    /\ p_raw = <<"5", ",", "3">>
    /\ precio_steps = << <<"5", ".", "3">>, <<"5", "3">> >>

(***************************************************************************)
(* Inputs of the ECI grouping specification: every page starts with the    *)
(* header of the order and goes on with articles                           *)
(***************************************************************************)
\* "2 8447571299747 S R C VEST 25 1 53,000 53,000 72,900 1325,00": the same
\* article as DetailLine, another quantity
DetailLine25 ==
    <<"2", " ">> \o Ean
    \o <<" ", "S", " ", "R", " ", "C", " ", "V", "E", "S", "T", " ", "2", "5", " ", "1", " ",
         "5", "3", ",", "0", "0", "0", " ", "5", "3", ",", "0", "0", "0", " ",
         "7", "2", ",", "9", "0", "0", " ", "1", "3", "2", "5", ",", "0", "0", "\n">>

\* "3 8447571299747 S R C TOP 1,5 1 53,000 53,000 72,900 79,50": another
\* description, and a quantity that is not a number for pd.to_numeric
DetailLineBadQty ==
    <<"3", " ">> \o Ean
    \o <<" ", "S", " ", "R", " ", "C", " ", "T", "O", "P", " ", "1", ",", "5", " ", "1", " ",
         "5", "3", ",", "0", "0", "0", " ", "5", "3", ",", "0", "0", "0", " ",
         "7", "2", ",", "9", "0", "0", " ", "7", "9", ",", "5", "0", "\n">>

MaxArticles == 3

\* an article: its detail line and, below it, its model/colour line
ArticlePool ==
    { DetailLine \o ModelColorLine,
      DetailLine25 \o ModelColorLine,
      DetailLineBadQty \o ModelColorLine }

InitEciGroup ==
    /\ pc = "input"
    /\ fed = 0
    /\ line = <<>>
    /\ parsed = None
    /\ full_text = <<>>
    /\ orders = <<>>
    /\ rows = <<>>
    /\ pages = <<>>
    /\ page_rows = <<>>
    /\ df_grouped = {}
    /\ p_raw = <<>>
    /\ precio_steps = <<>>
    /\ grammar = ""
    /\ OthersIdle

\* the document gets one more page, which starts with the header
NewOrderPage ==
    /\ pc = "input"
    /\ Len(pages) < MaxPages
    /\ pages' = Append(pages, HeaderBlock)
    /\ UNCHANGED <<pc, fed, detailVars, orderVars, page_rows, df_grouped, priceVars, mapVars, hdrVars, cliVars>>

\* the last page gets one more article
AppendArticle ==
    /\ pc = "input"
    /\ pages # <<>>
    /\ fed < MaxArticles
    /\ \E art \in ArticlePool : pages' = [pages EXCEPT ![Len(pages)] = @ \o art]
    /\ fed' = fed + 1
    /\ UNCHANGED <<pc, detailVars, orderVars, page_rows, df_grouped, priceVars, mapVars, hdrVars, cliVars>>

NextEciGroup == NewOrderPage \/ AppendArticle \/ CallParsePdfEci

SpecEciGroup == InitEciGroup /\ [][NextEciGroup]_vars

(***************************************************************************)
(* Properties of the ECI grouping                                          *)
(***************************************************************************)
\* the sequence s rearranged by the permutation perm of its positions
Rearranged(s, perm) == [i \in 1..Len(s) |-> s[perm[i]]]

\* C11: the grouping does not depend on the order of its input: for every
\* permutation of the rows of all pages, and for every order of the pages,
\* grouping gives the same set of keys with the same sum of units per key as
\* the document gave.
C11_GroupingIgnoresOrder ==
    pc = "done" =>
        /\ LET all_rows == AllRows IN
           \A perm \in Permutations(1..Len(all_rows)) :
              GroupSum(Rearranged(all_rows, perm)) = df_grouped
        /\ \A perm \in Permutations(1..Len(page_rows)) :
              GroupSum(Concat(Rearranged(page_rows, perm))) = df_grouped

\* two pages gave rows with the same key and different quantities, 134 on
\* the first and 25 on the second, and the group has their sum
C11_Witness ==
    /\ pc = "done"
    /\ Len(page_rows) = 2
    /\ Len(page_rows[1]) = 1
    /\ Len(page_rows[2]) = 1
    /\ GroupKey(page_rows[1][1]) = GroupKey(page_rows[2][1])
    /\ page_rows[1][1].TOTAL_UNIDADES = <<"1", "3", "4">>
    /\ page_rows[2][1].TOTAL_UNIDADES = <<"2", "5">>
    /\ \E r \in df_grouped : r.TOTAL_UNIDADES = 159
    /\ Cardinality(df_grouped) = 1

\* whether two rows are of the same order, model and colour
SameArticle(r1, r2) ==
    /\ r1.N_PEDIDO = r2.N_PEDIDO
    /\ r1.MODELO = r2.MODELO
    /\ r1.COLOR = r2.COLOR

RECURSIVE UnitsOfArticle(_, _)
\* the units of the rows of all_rows that are of the same article as r
UnitsOfArticle(all_rows, r) ==
    IF all_rows = <<>> THEN 0
    ELSE (IF SameArticle(Head(all_rows), r) THEN ToInt(Head(all_rows).TOTAL_UNIDADES) ELSE 0)
         + UnitsOfArticle(Tail(all_rows), r)

\* C12: the output of parse_pdf_eci has one record per distinct (order
\* number, model, colour): no two output rows share N_PEDIDO, MODELO and
\* COLOR, and the quantity of a row is the sum over all occurrences of its
\* tuple.
C12_OneRowPerOrderModelColor ==
    pc = "done" =>
        /\ \A r1, r2 \in df_grouped : SameArticle(r1, r2) => r1 = r2
        /\ \A r \in df_grouped : r.TOTAL_UNIDADES = UnitsOfArticle(AllRows, r)

(***************************************************************************)
(* eurofiel_parser.parse_equivalences, apply_eq and build_dataframe        *)
(***************************************************************************)
TipoGroup == <<"T", "I", "P", "O">>

DestinoGroup == <<"D", "E", "S", "T", "I", "N", "O">>

ModeloGroup == <<"M", "O", "D", "E", "L", "O">>

PatronGroup == <<"P", "A", "T", "R", "O", "N">>

MinTableCols == 3

\* Linea.unidades or Linea.precio None, and a blank cell of the frame
NullNum == -1

\* The mapping as a function from <<group, source>> to target.  A table is
\* read only when a path is given and it has at least three columns; the
\* first three cells of a row are group, source and target, each str() and
\* strip(); a row without group or source is skipped; a later row with the
\* same group and source replaces the earlier one.
parse_equivalences(table) ==
    IF ~table.path \/ table.cols < MinTableCols THEN <<>>
    ELSE LET kept   == SelectSeq(table.rows,
                                 LAMBDA r : Strip(r[1]) # <<>> /\ Strip(r[2]) # <<>>)
             key(i) == <<Strip(kept[i][1]), Strip(kept[i][2])>>
         IN  [k \in {key(i) : i \in 1..Len(kept)} |->
                 Strip(kept[Max({i \in 1..Len(kept) : key(i) = k})][3])]

\* a lookup that takes the target of any group that holds the value
apply_eq_any_group(mapping, group, value) ==
    IF value = <<>> THEN value
    ELSE IF \E k \in DOMAIN mapping : k[2] = value
    THEN mapping[CHOOSE k \in DOMAIN mapping : k[2] = value]
    ELSE value

\* eq.get(group, {}).get(value, value), and value itself when it is empty
apply_eq(mapping, group, value) ==
    IF value = <<>> THEN value
    ELSE IF <<group, value>> \in DOMAIN mapping THEN mapping[<<group, value>>]
    ELSE value

\* fillna(0) of a numeric column
OrZero(n) == IF n = NullNum THEN 0 ELSE n

RECURSIVE TotalUnits(_)
\* UNIDADES_TOTALES: the sum of the units of the lines
TotalUnits(lns) ==
    IF lns = <<>> THEN 0 ELSE OrZero(Head(lns).unidades) + TotalUnits(Tail(lns))

RECURSIVE TotalAmount(_)
\* IMPORTE_TOTAL: the sum of units times price of the lines
TotalAmount(lns) ==
    IF lns = <<>> THEN 0
    ELSE OrZero(Head(lns).unidades) * OrZero(Head(lns).precio) + TotalAmount(Tail(lns))

\* One row per line.  All rows carry the pedido of the one header, so the
\* totals per PEDIDO are the totals over all lines.  Prices are kept in
\* cents, IMPORTE_TOTAL in cents too.
build_dataframe(hd, lns, mapping) ==
    LET tipo_eq      == apply_eq(mapping, TipoGroup, hd.tipo)
        tipo_norm    == IF tipo_eq # <<>> THEN tipo_eq ELSE <<"P", "e", "d", "i", "d", "o">>
        destino_norm == apply_eq(mapping, DestinoGroup, hd.destino)
        units        == TotalUnits(lns)
        amount       == TotalAmount(lns)
    IN  [i \in 1..Len(lns) |->
            [TIPO             |-> tipo_norm,
             PEDIDO           |-> hd.pedido,
             FECHA            |-> hd.fecha,
             FECHA_ENTREGA    |-> hd.fecha_entrega,
             DESTINO          |-> destino_norm,
             MODELO           |-> apply_eq(mapping, ModeloGroup, lns[i].modelo),
             PATRON           |-> apply_eq(mapping, PatronGroup, lns[i].patron),
             UNIDADES         |-> lns[i].unidades,
             PRECIO           |-> lns[i].precio,
             UNIDADES_TOTALES |-> units,
             IMPORTE_TOTAL    |-> amount]]

(***************************************************************************)
(* Inputs of the equivalence specification                                 *)
(***************************************************************************)
MaxTableRows == 2

MaxLineas == 2

Code3RC240 == <<"3", "R", "C", "2", "4", "0">>

Code0863769 == <<"0", "8", "6", "3", "7", "6", "9">>

Madrid == <<"M", "A", "D", "R", "I", "D">>

\* rows of the table: a model mapped twice, a pattern, a destination with
\* blanks around its cells, a row without group and a row without source
TableRowPool ==
    { <<ModeloGroup, Code3RC240, <<"X", "1">> >>,
      <<ModeloGroup, Code3RC240, <<"X", "2">> >>,
      <<PatronGroup, Code0863769, <<"X", "1">> >>,
      << <<" ">> \o DestinoGroup, Madrid \o <<" ">>, <<" ", "X", "2">> >>,
      << <<>>, Code3RC240, <<"X", "2">> >>,
      <<ModeloGroup, <<" ">>, <<"X", "2">> >> }

LineaPool ==
    { [modelo |-> Code3RC240, patron |-> Code0863769, precio |-> 2750, unidades |-> 4],
      [modelo |-> Code0863769, patron |-> <<>>, precio |-> NullNum, unidades |-> 2],
      [modelo |-> <<>>, patron |-> Code3RC240, precio |-> 5000, unidades |-> NullNum] }

\* the header parse_pdf returned: with and without destination
MapHeaderPool ==
    { [NewHeader EXCEPT !.pedido = <<"A", "1">>, !.destino = Madrid],
      [NewHeader EXCEPT !.pedido = <<"A", "1">>] }

\* without --map, or with a table of two or of three columns
InitMap ==
    /\ pc = "input"
    /\ fed = 0
    /\ line = <<>>
    /\ parsed = None
    /\ full_text = <<>>
    /\ orders = <<>>
    /\ rows = <<>>
    /\ pages = <<>>
    /\ page_rows = <<>>
    /\ df_grouped = {}
    /\ p_raw = <<>>
    /\ precio_steps = <<>>
    /\ grammar = ""
    /\ eq_table \in {NoTable} \cup {[path |-> TRUE, cols |-> c, rows |-> <<>>] : c \in {2, 3}}
    /\ eq = <<>>
    /\ lineas = <<>>
    /\ df = <<>>
    /\ ef_pages = <<>>
    /\ page_no = 0
    /\ current = NoHeader
    /\ header \in MapHeaderPool
    /\ out_file = NoFile
    /\ printed = <<>>

\* the table gets one more row, of as many cells as it has columns
AppendTableRow ==
    /\ pc = "input"
    /\ eq_table.path
    /\ Len(eq_table.rows) < MaxTableRows
    /\ \E r \in TableRowPool :
          eq_table' = [eq_table EXCEPT !.rows = Append(@, SubSeq(r, 1, eq_table.cols))]
    /\ UNCHANGED <<pc, fed, detailVars, orderVars, eciVars, priceVars, eq, lineas, df,
                   hdrVars, cliVars>>

\* the document gets one more article line
AppendLinea ==
    /\ pc = "input"
    /\ Len(lineas) < MaxLineas
    /\ \E ln \in LineaPool : lineas' = Append(lineas, ln)
    /\ UNCHANGED <<pc, fed, detailVars, orderVars, eciVars, priceVars, eq_table, eq, df,
                   hdrVars, cliVars>>

\* main of eurofiel_parser from the parsed header and lines on:
\* eq = parse_equivalences(args.map) if args.map else {}, then build_dataframe
CallBuildDataframe ==
    /\ pc = "input"
    /\ eq' = parse_equivalences(eq_table)
    /\ df' = build_dataframe(header, lineas, eq')
    /\ pc' = "done"
    /\ UNCHANGED <<fed, detailVars, orderVars, eciVars, priceVars, eq_table, lineas,
                   hdrVars, cliVars>>

NextMap == AppendTableRow \/ AppendLinea \/ CallBuildDataframe

SpecMap == InitMap /\ [][NextMap]_vars

(***************************************************************************)
(* Properties of the equivalence mapping                                   *)
(***************************************************************************)
\* the groups and the values the lookups are asked for
AskedGroups == {TipoGroup, DestinoGroup, ModeloGroup, PatronGroup}

AskedValues == {<<>>, Code3RC240, Code0863769, Madrid, Madrid \o <<" ">>}

AlwaysWritten(frame) == TRUE

\* "if df.empty: ... return" of eci_parser.main: whether the frame is written
EciFrameWritten(frame) == frame # {}

\* eci_parser.main on a PDF with the pages of the state
MainEci ==
    /\ pc = "input"
    /\ full_text = <<>>
    /\ page_rows' = [p \in 1..Len(pages) |-> parse_page_eci(pages[p])]
    /\ df_grouped' = GroupSum(Concat(page_rows'))
    /\ IF EciFrameWritten(df_grouped')
       THEN /\ out_file' = [written |-> TRUE, rows |-> Cardinality(df_grouped')]
            /\ printed' = Append(printed, [msg |-> "Exportado", n |-> Cardinality(df_grouped')])
       ELSE /\ out_file' = out_file
            /\ printed' = Append(printed, [msg |-> "No se han detectado lineas", n |-> 0])
    /\ pc' = "done"
    /\ UNCHANGED <<fed, detailVars, orderVars, pages, priceVars, mapVars, hdrVars>>

\* eurofiel_resumen_pedidos.main on a PDF whose joined page text is full_text
MainEurofiel ==
    /\ pc = "input"
    /\ pages = <<>>
    /\ orders' = split_orders(full_text)
    /\ rows' = DropRowsWithoutPedido([i \in 1..Len(orders') |-> parse_order(orders'[i])])
    /\ out_file' = [written |-> TRUE, rows |-> Len(rows')]
    /\ printed' = Append(printed, [msg |-> "Resumen generado", n |-> Len(rows')])
    /\ pc' = "done"
    /\ UNCHANGED <<fed, detailVars, full_text, eciVars, priceVars, mapVars, hdrVars>>

\* either main on a path where there is no PDF: eurofiel_resumen_pedidos
\* leaves with SystemExit before anything is read, eci_parser with the
\* exception of pdfplumber.open; nothing is written, nothing is printed
MainWithoutPdf ==
    /\ pc = "input"
    /\ pages = <<>>
    /\ full_text = <<>>
    /\ pc' = "failed"
    /\ UNCHANGED <<fed, detailVars, orderVars, eciVars, priceVars, mapVars, hdrVars, cliVars>>

InitCli ==
    /\ pc = "input"
    /\ fed = 0
    /\ line = <<>>
    /\ parsed = None
    /\ full_text = <<>>
    /\ orders = <<>>
    /\ rows = <<>>
    /\ pages = <<>>
    /\ page_rows = <<>>
    /\ df_grouped = {}
    /\ p_raw = <<>>
    /\ precio_steps = <<>>
    /\ grammar = ""
    /\ OthersIdle

\* the ECI document gets one more page
CliNewOrderPage == full_text = <<>> /\ NewOrderPage

\* the Eurofiel document gets one more piece of text
CliAppendText == pages = <<>> /\ AppendText

NextCli ==
    \/ CliNewOrderPage
    \/ AppendArticle
    \/ CliAppendText
    \/ MainEci
    \/ MainEurofiel
    \/ MainWithoutPdf

SpecCli == InitCli /\ [][NextCli]_vars

(***************************************************************************)
(* Properties of the command lines                                         *)
(***************************************************************************)
RanEci == pc = "done" /\ printed # <<>> /\ printed[1].msg # "Resumen generado"

RanEurofiel == pc = "done" /\ printed # <<>> /\ printed[1].msg = "Resumen generado"

\* C14: on an empty result the ECI command line prints a warning and writes
\* no file, the Eurofiel one writes a file without rows; on a non-empty
\* result both write the file and report the number of rows.
C14_EmptyResultPerCli ==
    /\ pc = "done" => Len(printed) = 1
    /\ (RanEci /\ df_grouped = {}) =>
          /\ ~out_file.written
          /\ printed[1].msg = "No se han detectado lineas"
    /\ (RanEci /\ df_grouped # {}) =>
          /\ out_file = [written |-> TRUE, rows |-> Cardinality(df_grouped)]
          /\ printed[1] = [msg |-> "Exportado", n |-> Cardinality(df_grouped)]
    /\ RanEurofiel =>
          /\ out_file = [written |-> TRUE, rows |-> Len(rows)]
          /\ printed[1] = [msg |-> "Resumen generado", n |-> Len(rows)]

\* the ECI command line ran on a document of two pages that hold the header
\* and no article: a warning and no file
C14_Witness ==
    /\ RanEci
    /\ Len(pages) = 2
    /\ df_grouped = {}
    /\ ~out_file.written
    /\ printed = <<[msg |-> "No se han detectado lineas", n |-> 0]>>

(***************************************************************************)
(* Properties of the ECI quantities                                        *)
(***************************************************************************)
\* whether a quantity token writes a number: digits, with at most one dot
ReadableQuantity(tok) ==
    /\ Chars(tok) \subseteq Digits \cup {"."}
    /\ Chars(tok) \cap Digits # {}
    /\ Cardinality({i \in 1..Len(tok) : tok[i] = "."}) <= 1

\* the positions in all_rows of the rows with the key of r
RowsOfKey(all_rows, r) == {i \in 1..Len(all_rows) : GroupKey(all_rows[i]) = GroupKey(r)}

RECURSIVE ReadableUnits(_, _)
\* the sum of the readable quantities of the rows of all_rows with the key of r
ReadableUnits(all_rows, r) ==
    IF all_rows = <<>> THEN 0
    ELSE (IF GroupKey(Head(all_rows)) = GroupKey(r)
             /\ ReadableQuantity(Head(all_rows).TOTAL_UNIDADES)
          THEN ToInt(Head(all_rows).TOTAL_UNIDADES) ELSE 0)
         + ReadableUnits(Tail(all_rows), r)

\* C15: a detail row whose quantity token cannot be read as a number stays
\* in the output of parse_pdf_eci, and its quantity is blank, not a number:
\* the row of its key is there, blank when no row of the key has a readable
\* quantity, and else the sum of the readable ones.
C15_MalformedQuantityKeptBlank ==
    pc = "done" =>
        LET all_rows == AllRows IN
        \A i \in 1..Len(all_rows) :
            ~ReadableQuantity(all_rows[i].TOTAL_UNIDADES) =>
                \E r \in df_grouped :
                    /\ GroupKey(r) = GroupKey(all_rows[i])
                    /\ r.TOTAL_UNIDADES =
                          (IF \A k \in RowsOfKey(all_rows, r) :
                                  ~ReadableQuantity(all_rows[k].TOTAL_UNIDADES)
                           THEN NullNum
                           ELSE ReadableUnits(all_rows, r))

(***************************************************************************)
(* Inputs of the chunk specification: one order chunk put together from   *)
(* whole lines, detail lines among them, and handed to parse_order         *)
(***************************************************************************)
MaxChunkLines == 4

\* "Nº Pedido: A1" on a line of its own
MarkerLineA1 == MarkerA1 \o <<"\n">>

\* "1 8447571299747 3RC240/NARANJA/XS 0863769/66/01 1 50 50 0 EUR"
OrderDetailA ==
    <<"1", " ">> \o Ean \o
    <<" ", "3", "R", "C", "2", "4", "0", "/", "N", "A", "R", "A", "N", "J", "A", "/", "X", "S",
      " ", "0", "8", "6", "3", "7", "6", "9", "/", "6", "6", "/", "0", "1", " ", "1", " ", "5",
      "0", " ", "5", "0", " ", "0", " ", "E", "U", "R", "\n">>

\* "2 8447571299747 2TB060/AZUL OSCUR/S 0832547/11/04 4 27 27,5 189 EUR"
OrderDetailB ==
    <<"2", " ">> \o Ean \o
    <<" ", "2", "T", "B", "0", "6", "0", "/", "A", "Z", "U", "L", " ", "O", "S", "C", "U", "R",
      "/", "S", " ">> \o CliCode \o
    <<" ", "4", " ", "2", "7", " ", "2", "7", ",", "5", " ", "1", "8", "9", " ", "E", "U", "R",
      "\n">>

\* "1 8447571299747 0832547/11/04 50 50 50 50": seven tokens, not a detail line
OrderDetailShort ==
    <<"1", " ">> \o Ean \o <<" ">> \o CliCode \o
    <<" ", "5", "0", " ", "5", "0", " ", "5", "0", " ", "5", "0", "\n">>

ChunkLinePool == { LabelLine, MarkerLineA1, OrderDetailA, OrderDetailB, OrderDetailShort }

InitChunk ==
    /\ pc = "input"
    /\ fed = 0
    /\ line = <<>>
    /\ parsed = None
    /\ full_text = <<>>
    /\ orders = <<>>
    /\ rows = <<>>
    /\ pages = <<>>
    /\ page_rows = <<>>
    /\ df_grouped = {}
    /\ p_raw = <<>>
    /\ precio_steps = <<>>
    /\ grammar = ""
    /\ OthersIdle

\* the chunk gets one more line
AppendChunkLine ==
    /\ pc = "input"
    /\ fed < MaxChunkLines
    /\ \E ln \in ChunkLinePool : full_text' = full_text \o ln
    /\ fed' = fed + 1
    /\ UNCHANGED <<pc, detailVars, orders, rows, eciVars, priceVars, mapVars, hdrVars, cliVars>>

\* parse_order on the chunk: the chunk is the one order, its return value
\* the one row
CallParseOrder ==
    /\ pc = "input"
    /\ orders' = <<full_text>>
    /\ rows' = <<parse_order(full_text)>>
    /\ pc' = "done"
    /\ UNCHANGED <<fed, detailVars, full_text, eciVars, priceVars, mapVars, hdrVars, cliVars>>

NextChunk == AppendChunkLine \/ CallParseOrder

SpecChunk == InitChunk /\ [][NextChunk]_vars

(***************************************************************************)
(* C16                                                                     *)
(***************************************************************************)
\* the positions, among the non-blank lines of the chunk, of the lines
\* parse_detail_line accepts
QualifyingLines(lines) == {k \in 1..Len(lines) : parse_detail_line(lines[k]) # None}

\* C16: parse_order gives one row per chunk; its MODELO, PATRON and PRECIO
\* are those of the first line of the chunk that parse_detail_line accepts,
\* whatever lines follow it, and are empty when no line is accepted.
C16_FirstQualifyingLineWins ==
    (pc = "done" /\ orders = <<full_text>>) =>
        LET lines == NonBlankLines(full_text)
            q     == QualifyingLines(lines)
            got   == <<rows[1].MODELO, rows[1].PATRON, rows[1].PRECIO>>
        IN  /\ Len(rows) = 1
            /\ got = (IF q = {} THEN <<<<>>, <<>>, <<>>>>
                      ELSE parse_detail_line(lines[Min(q)]))

\* a chunk with two accepted lines that give different fields, the second
\* accepted line last, and the row holds the fields of the first
C16_Witness ==
    /\ pc = "done"
    /\ orders = <<full_text>>
    /\ LET lines == NonBlankLines(full_text)
           q     == QualifyingLines(lines)
       IN  /\ Cardinality(q) >= 2
           /\ parse_detail_line(lines[Min(q)]) # parse_detail_line(lines[Max(q)])
           /\ Len(rows) = 1
           /\ rows[1].MODELO = parse_detail_line(lines[Min(q)])[1]

(***************************************************************************)
(* Inputs of the description specification: one page put together from    *)
(* detail lines and the lines that may follow a detail line                *)
(***************************************************************************)
MaxDescLines == 4

\* "47D262G 983": a model code and a colour code with nothing after them
ModelCodeOnlyLine == <<"4", "7", "D", "2", "6", "2", "G", " ", "9", "8", "3", "\n">>

\* "T-38 983 ROJO": the first token is not made of A-Z and 0-9 alone
HyphenCodeLine == <<"T", "-", "3", "8", " ", "9", "8", "3", " ", "R", "O", "J", "O", "\n">>

\* "WOMAN FIESTA 3": the noise marker and one more token
NoiseSizeLine == NoiseLit \o <<" ", "3", "\n">>

DescLinePool ==
    { DetailLine, ContinuationLine, ModelColorLine, NoiseLine,
      ModelCodeOnlyLine, HyphenCodeLine, NoiseSizeLine }

InitEciDesc ==
    /\ pc = "input"
    /\ fed = 0
    /\ line = <<>>
    /\ parsed = None
    /\ full_text = <<>>
    /\ orders = <<>>
    /\ rows = <<>>
    /\ pages = << <<>> >>
    /\ page_rows = <<>>
    /\ df_grouped = {}
    /\ p_raw = <<>>
    /\ precio_steps = <<>>
    /\ grammar = ""
    /\ OthersIdle

\* the page gets one more line
AppendDescLine ==
    /\ pc = "input"
    /\ fed < MaxDescLines
    /\ \E ln \in DescLinePool : pages' = [pages EXCEPT ![Len(pages)] = @ \o ln]
    /\ fed' = fed + 1
    /\ UNCHANGED <<pc, detailVars, orderVars, page_rows, df_grouped, priceVars, mapVars, hdrVars, cliVars>>

NextEciDesc == AppendDescLine \/ CallParsePdfEci

SpecEciDesc == InitEciDesc /\ [][NextEciDesc]_vars

(***************************************************************************)
(* C17                                                                     *)
(***************************************************************************)
\* the 1-based positions in lines of the detail lines that give a row
DetailPositions(lines) ==
    Sorted({i \in 1..Len(lines) :
               DetailStart(lines[i]) /\ Len(NumIndices(Split(lines[i]))) >= MinNumTokens})

\* the description a detail line holds itself: its tokens from the sixth up
\* to the quantity
DescOfLine(ln) ==
    LET parts == Split(ln)
        nums  == NumIndices(parts)
    IN  Join(<<" ">>, SubSeq(parts, DescFirstIdx + 1, nums[Len(nums) - QtyFromEnd + 1]))

\* a model/colour line as it is described: a code of five or more of A-Z and
\* 0-9 followed by a token of three digits
ModelColorLineStated(ln) ==
    LET t == Split(ln) IN
    /\ Len(t) >= 2
    /\ IsModelTok(t[1])
    /\ Len(t[1]) >= ModelCodeMinLen
    /\ Len(t[2]) = ColorCodeLen
    /\ AllDigits(t[2])

\* line i + 1 is a second description line
ContinuationStated(lines, i) ==
    /\ i + 1 <= Len(lines)
    /\ ~DetailStart(lines[i + 1])
    /\ ~ModelColorLineStated(lines[i + 1])
    /\ ~Contains(lines[i + 1], NoiseLit)

\* C17: for the detail line at position i of the non-blank lines of a page,
\* line i + 1 is appended to the description exactly when it exists, is no
\* detail line, is no model/colour line and holds no noise marker; model and
\* colour are read at i + 2 when a line was appended and at i + 1 otherwise,
\* and are both empty unless the first token of that line is made of A-Z and
\* 0-9 alone.
C17_ContinuationThenModelColor ==
    pc = "done" =>
        \A p \in 1..Len(pages) :
            LET lines == PageLines(pages[p])
                pos   == DetailPositions(lines)
            IN  /\ Len(page_rows[p]) = Len(pos)
                /\ \A n \in 1..Len(pos) :
                       LET i    == pos[n]
                           row  == page_rows[p][n]
                           cont == ContinuationStated(lines, i)
                           j    == IF cont THEN i + 2 ELSE i + 1
                       IN  /\ row.DESCRIPCION =
                                 (IF cont
                                  THEN DescOfLine(lines[i]) \o <<" ">> \o lines[i + 1]
                                  ELSE DescOfLine(lines[i]))
                           /\ (j > Len(lines) \/ ~IsModelTok(Split(lines[j])[1]))
                                 => (row.MODELO = <<>> /\ row.COLOR = <<>>)
                           /\ row.MODELO # <<>>
                                 => (j <= Len(lines) /\ row.MODELO = Split(lines[j])[1])

(***************************************************************************)
(* eurofiel_parser.parse_pdf: the header of the document                   *)
(***************************************************************************)
\* [A-Z] under re.IGNORECASE
AsciiLetters == {UpperLetters[i] : i \in 1..26} \cup {LowerLetters[i] : i \in 1..26}

\* \w
WordChars ==
    UpperClass \cup {LowerLetters[i] : i \in 1..Len(LowerLetters)} \cup Digits \cup {"_", "º"}

\* [\w\-./]
PedidoValueChars == WordChars \cup {"-", ".", "/"}

\* the literals of the four header patterns, in lower case
NLit == <<"n">>
DocLit == <<"d", "o", "c">>
PedidoLowLit == <<"p", "e", "d", "i", "d", "o">>
FechaLowLit == <<"f", "e", "c", "h", "a">>
EntregaLowLit == <<"e", "n", "t", "r", "e", "g", "a">>
DestinoLowLit == <<"d", "e", "s", "t", "i", "n", "o">>
DestinatarioLowLit == <<"d", "e", "s", "t", "i", "n", "a", "t", "a", "r", "i", "o">>
LugLowLit == <<"l", "u", "g">>
EntregLowLit == <<"e", "n", "t", "r", "e", "g", ".">>

\* where r"\s*:\s*" ends when it starts at offset e, or -1
ColonThen(t, e) ==
    LET c == SkipWs(t, e) IN
    IF c < Len(t) /\ t[c + 1] = ":" THEN SkipWs(t, c + 1) ELSE -1

\* where (?:N[ºo]\s*doc|N[ºo]\s*Pedido|Pedido) ends when it starts at offset
\* k of the text whose lower case is low, or -1
PedidoLabelEnd(low, k) ==
    IF LitAt(low, k, NLit) /\ k + 1 < Len(low) /\ low[k + 2] \in {"º", "o"}
    THEN LET w == SkipWs(low, k + 2) IN
         IF LitAt(low, w, DocLit) THEN w + Len(DocLit)
         ELSE IF LitAt(low, w, PedidoLowLit) THEN w + Len(PedidoLowLit)
         ELSE -1
    ELSE IF LitAt(low, k, PedidoLowLit) THEN k + Len(PedidoLowLit)
    ELSE -1

\* group 1 of HEADER_PEDIDO_RE when it matches at offset k, or "":
\* ([A-Z]?\d[\w\-./]*) is a digit, or a letter and a digit, and what follows
HeaderPedidoAt(t, low, k) ==
    LET e == PedidoLabelEnd(low, k)
        g == IF e = -1 THEN -1 ELSE ColonThen(t, e)
        d == IF g # -1 /\ g + 1 < Len(t) /\ t[g + 1] \in AsciiLetters THEN g + 1 ELSE g
    IN  IF g # -1 /\ d < Len(t) /\ t[d + 1] \in Digits
        THEN Slice(t, g, RunEnd(t, d + 1, PedidoValueChars))
        ELSE <<>>

\* mp = HEADER_PEDIDO_RE.search(text): <<>> without a match, else
\* <<mp.group(1).strip()>>
SearchHeaderPedido(t) ==
    LET low  == Lower(t)
        hits == {k \in 0..(Len(t) - 1) : HeaderPedidoAt(t, low, k) # <<>>}
    IN  IF hits = {} THEN <<>> ELSE <<Strip(HeaderPedidoAt(t, low, Min(hits)))>>

\* the offset of group 1 of HEADER_FECHA_RE when it matches at offset k, or -1
HeaderFechaAt(t, low, k) ==
    LET g == IF LitAt(low, k, FechaLowLit) THEN ColonThen(t, k + Len(FechaLowLit)) ELSE -1
    IN  IF g # -1 /\ DateAt(t, g) THEN g ELSE -1

\* mf = HEADER_FECHA_RE.search(text): <<>> or <<mf.group(1).strip()>>
SearchHeaderFecha(t) ==
    LET low  == Lower(t)
        hits == {k \in 0..(Len(t) - 1) : HeaderFechaAt(t, low, k) # -1}
    IN  IF hits = {} THEN <<>>
        ELSE LET g == HeaderFechaAt(t, low, Min(hits)) IN <<Strip(Slice(t, g, g + 10))>>

\* the offset of group 1 of HEADER_FECHA_ENTREGA_RE when it matches at offset
\* k, or -1
HeaderFechaEntregaAt(t, low, k) ==
    LET w == SkipWs(t, k + Len(FechaLowLit))
        g == IF LitAt(low, k, FechaLowLit) /\ LitAt(low, w, EntregaLowLit)
             THEN ColonThen(t, w + Len(EntregaLowLit))
             ELSE -1
    IN  IF g # -1 /\ DateAt(t, g) THEN g ELSE -1

\* mfe = HEADER_FECHA_ENTREGA_RE.search(text): <<>> or <<mfe.group(1).strip()>>
SearchHeaderFechaEntrega(t) ==
    LET low  == Lower(t)
        hits == {k \in 0..(Len(t) - 1) : HeaderFechaEntregaAt(t, low, k) # -1}
    IN  IF hits = {} THEN <<>>
        ELSE LET g == HeaderFechaEntregaAt(t, low, Min(hits)) IN <<Strip(Slice(t, g, g + 10))>>

\* where (?:Destino|Destinatario|Lug\.?Entreg\.) ends when it starts at
\* offset k, or -1
DestinoLabelEnd(low, k) ==
    IF LitAt(low, k, DestinoLowLit) THEN k + Len(DestinoLowLit)
    ELSE IF LitAt(low, k, DestinatarioLowLit) THEN k + Len(DestinatarioLowLit)
    ELSE IF LitAt(low, k, LugLowLit)
    THEN LET a == IF LitAt(low, k + Len(LugLowLit), <<".">>)
                  THEN k + Len(LugLowLit) + 1
                  ELSE k + Len(LugLowLit)
         IN  IF LitAt(low, a, EntregLowLit) THEN a + Len(EntregLowLit) ELSE -1
    ELSE -1

\* the offset of the first line end at or after offset p, or the length
LineEnd(t, p) == Min({q \in p..(Len(t) - 1) : t[q + 1] = "\n"} \cup {Len(t)})

\* the offset of group 1, (.+), of HEADER_DESTINO_RE when it matches at
\* offset k, or -1: the white space after the colon is taken as far as it
\* goes, over line ends too, and given back only at the end of the text, down
\* to the last character that is no line end
HeaderDestinoAt(t, low, k) ==
    LET e == DestinoLabelEnd(low, k)
        c == IF e = -1 THEN Len(t) ELSE SkipWs(t, e)
    IN  IF c < Len(t) /\ t[c + 1] = ":"
        THEN LET r     == SkipWs(t, c + 1)
                 backs == {p \in (c + 1)..(r - 1) : t[p + 1] # "\n"}
             IN  IF r < Len(t) THEN r
                 ELSE IF backs # {} THEN Max(backs)
                 ELSE -1
        ELSE -1

\* md = HEADER_DESTINO_RE.search(text): <<>> or
\* <<md.group(1).splitlines()[0].strip()>>; the group holds no line end
SearchHeaderDestino(t) ==
    LET low  == Lower(t)
        hits == {k \in 0..(Len(t) - 1) : HeaderDestinoAt(t, low, k) # -1}
    IN  IF hits = {} THEN <<>>
        ELSE LET g == HeaderDestinoAt(t, low, Min(hits)) IN <<Strip(Slice(t, g, LineEnd(t, g)))>>

\* the days of month mo of year y
DaysInMonth(y, mo) ==
    IF mo = 2
    THEN (IF (y % 4 = 0 /\ y % 100 # 0) \/ y % 400 = 0 THEN 29 ELSE 28)
    ELSE IF mo \in {4, 6, 9, 11} THEN 30 ELSE 31

\* strftime("%Y") pads a year below 1000 with zeros to four digits or leaves
\* it as it is, as the C library and the interpreter have it
YearPaddings == {TRUE, FALSE}

RECURSIVE DropLeadingZeros(_)
DropLeadingZeros(s) ==
    IF Len(s) > 1 /\ Head(s) = "0" THEN DropLeadingZeros(Tail(s)) ELSE s

\* norm_date(s) for s of the form \d{2}/\d{2}/\d{4}, the only form the two
\* date patterns let through: a date of the calendar is written again with
\* strftime("%d/%m/%Y"), anything else comes back as it is ("%d-%m-%Y" never
\* fits)
norm_date(s, padded) ==
    LET d  == IntOf(SubSeq(s, 1, 2))
        mo == IntOf(SubSeq(s, 4, 5))
        y  == IntOf(SubSeq(s, 7, 10))
    IN  IF y >= 1 /\ mo \in 1..12 /\ d >= 1 /\ d <= DaysInMonth(y, mo)
        THEN SubSeq(s, 1, 6)
             \o (IF padded THEN SubSeq(s, 7, 10) ELSE DropLeadingZeros(SubSeq(s, 7, 10)))
        ELSE s

\* "if m: current_x = m.group(1)...": the value kept for the next pages
Seen(found, old) == IF found = <<>> THEN old ELSE found[1]

\* header.x = header.x or current_x
FirstWins(old, new) == IF old # <<>> THEN old ELSE new

(***************************************************************************)
(* Inputs of the header specification: pages put together from header      *)
(* lines.  The pages hold no table and no run of 13 digits, so that        *)
(* neither the tables nor the fallback search add a Linea.                 *)
(***************************************************************************)
MaxHeaderLines == 3

HeaderLinePool ==
    { <<"N", "º", " ", "P", "e", "d", "i", "d", "o", ":", " ", "7", "4", "2", "\n">>,
      <<"P", "e", "d", "i", "d", "o", ":", " ", "A", "8", "1", "5", "\n">>,
      <<"F", "e", "c", "h", "a", ":", " ", "0", "5", "/", "1", "1", "/", "0", "9", "9", "9", "\n">>,
      <<"F", "e", "c", "h", "a", ":", " ", "0", "1", "/", "0", "2", "/", "2", "0", "2", "5", "\n">>,
      <<"F", "e", "c", "h", "a", " ", "E", "n", "t", "r", "e", "g", "a", ":", " ", "0", "5", "/", "1", "1", "/", "2", "0", "2", "5", "\n">>,
      <<"D", "e", "s", "t", "i", "n", "o", ":", " ", "M", "A", "D", "R", "I", "D", "\n">>,
      <<"D", "e", "s", "t", "i", "n", "o", ":", " ", "\n">> }

InitHeader ==
    /\ pc = "input"
    /\ fed = 0
    /\ line = <<>>
    /\ parsed = None
    /\ full_text = <<>>
    /\ orders = <<>>
    /\ rows = <<>>
    /\ pages = <<>>
    /\ page_rows = <<>>
    /\ df_grouped = {}
    /\ p_raw = <<>>
    /\ precio_steps = <<>>
    /\ grammar = ""
    /\ OthersIdle

\* the PDF gets one more page, without text so far
EfNewPage ==
    /\ pc = "input"
    /\ Len(ef_pages) < MaxPages
    /\ ef_pages' = Append(ef_pages, <<>>)
    /\ UNCHANGED <<pc, fed, detailVars, orderVars, eciVars, priceVars, mapVars,
                   page_no, current, header, cliVars>>

\* the last page gets one more line
EfAppendLine ==
    /\ pc = "input"
    /\ ef_pages # <<>>
    /\ fed < MaxHeaderLines
    /\ \E ln \in HeaderLinePool :
           ef_pages' = [ef_pages EXCEPT ![Len(ef_pages)] = @ \o ln]
    /\ fed' = fed + 1
    /\ UNCHANGED <<pc, detailVars, orderVars, eciVars, priceVars, mapVars,
                   page_no, current, header, cliVars>>

\* parse_pdf up to the loop over the pages
OpenPdf ==
    /\ pc = "input"
    /\ pc' = "parsing"
    /\ header' = NewHeader
    /\ current' = NoHeader
    /\ page_no' = 0
    /\ lineas' = <<>>
    /\ UNCHANGED <<fed, detailVars, orderVars, eciVars, priceVars, eq_table, eq, df,
                   ef_pages, cliVars>>

\* one turn of the loop over the pages; the page adds no Linea
ReadPage ==
    /\ pc = "parsing"
    /\ page_no < Len(ef_pages)
    /\ LET text == ef_pages[page_no + 1] IN
       /\ current' =
             [pedido        |-> Seen(SearchHeaderPedido(text), current.pedido),
              fecha         |-> Seen(SearchHeaderFecha(text), current.fecha),
              fecha_entrega |-> Seen(SearchHeaderFechaEntrega(text), current.fecha_entrega),
              destino       |-> Seen(SearchHeaderDestino(text), current.destino)]
       /\ header' =
             [header EXCEPT
                 !.pedido        = FirstWins(@, current'.pedido),
                 !.fecha         = FirstWins(@, current'.fecha),
                 !.fecha_entrega = FirstWins(@, current'.fecha_entrega),
                 !.destino       = FirstWins(@, current'.destino)]
    /\ page_no' = page_no + 1
    /\ UNCHANGED <<pc, fed, detailVars, orderVars, eciVars, priceVars, mapVars,
                   ef_pages, cliVars>>

\* parse_pdf after the last page: the dates of the header are normalised
ReturnHeader ==
    /\ pc = "parsing"
    /\ page_no = Len(ef_pages)
    /\ \E padded \in YearPaddings :
           header' =
               [header EXCEPT
                   !.fecha         = IF @ # <<>> THEN norm_date(@, padded) ELSE <<>>,
                   !.fecha_entrega = IF @ # <<>> THEN norm_date(@, padded) ELSE <<>>]
    /\ pc' = "done"
    /\ UNCHANGED <<fed, detailVars, orderVars, eciVars, priceVars, mapVars,
                   ef_pages, page_no, current, cliVars>>

NextHeader == EfNewPage \/ EfAppendLine \/ OpenPdf \/ ReadPage \/ ReturnHeader

SpecHeader == InitHeader /\ [][NextHeader]_vars

(***************************************************************************)
(* C18                                                                     *)
(***************************************************************************)
EfHeaderFields == {"pedido", "fecha", "fecha_entrega", "destino"}

\* what the pattern of field f finds on a page
SearchField(text, f) ==
    CASE f = "pedido"        -> SearchHeaderPedido(text)
      [] f = "fecha"         -> SearchHeaderFecha(text)
      [] f = "fecha_entrega" -> SearchHeaderFechaEntrega(text)
      [] f = "destino"       -> SearchHeaderDestino(text)

\* the first value of field f that is not empty, in page order, or ""
FirstMatched(pgs, f) ==
    LET with == {p \in 1..Len(pgs) :
                    SearchField(pgs[p], f) # <<>> /\ SearchField(pgs[p], f)[1] # <<>>}
    IN  IF with = {} THEN <<>> ELSE SearchField(pgs[Min(with)], f)[1]

\* C18: while parse_pdf goes through the pages, a header field that holds a
\* value is changed by no later page, and when parse_pdf returns each of
\* pedido, fecha, fecha_entrega and destino is the first value that is not
\* empty matched on any page, or empty when there is none.
C18_EfHeaderFirstWins ==
    [][pc = "parsing" =>
          \A f \in EfHeaderFields :
              /\ (pc' = "parsing" /\ header[f] # <<>>) => header'[f] = header[f]
              /\ pc' = "done" => header'[f] = FirstMatched(ef_pages, f)]_vars

(***************************************************************************)
(* C19                                                                     *)
(***************************************************************************)
\* the line before the line of offset k, without its line end; k is not on
\* the first line
PrevLine(t, k) == Slice(t, PrevLineStart(t, k), LineStart(t, k) - 1)

\* whether chunk is what the text from offset a on begins with, the white
\* space in front of it apart
BeginsAt(t, a, chunk) ==
    /\ chunk # <<>>
    /\ LitAt(LStrip(Slice(t, a, Len(t))), 0, chunk)

\* C19: the chunk of a marker whose line comes after a non-blank line begins
\* at the start of that line, and the TIPO parse_order gives for the chunk is
\* that line, trimmed; the chunk of a marker on the first line of the text
\* begins at offset 0.
C19_ChunkBeginsAtLabelLine ==
    pc = "done" =>
        LET t  == full_text
            ms == Markers(t)
        IN  /\ Len(orders) = Len(ms)
            /\ \A i \in 1..Len(ms) :
                  IF LineStart(t, ms[i]) = 0
                  THEN BeginsAt(t, 0, orders[i])
                  ELSE Strip(PrevLine(t, ms[i])) # <<>> =>
                          /\ BeginsAt(t, PrevLineStart(t, ms[i]), orders[i])
                          /\ parse_order(orders[i]).TIPO = Strip(PrevLine(t, ms[i]))

\* two orders, the second with the label line "PEDIDO" above its marker,
\* which is what its chunk begins with and what its TIPO is
C19_Witness ==
    /\ pc = "done"
    /\ Len(orders) = 2
    /\ LET ms == Markers(full_text) IN
       /\ Len(ms) = 2
       /\ LineStart(full_text, ms[1]) = 0
       /\ PrevLineStart(full_text, ms[2]) > ms[1]
       /\ PrevLine(full_text, ms[2]) = <<"P", "E", "D", "I", "D", "O">>
       /\ parse_order(orders[2]).TIPO = <<"P", "E", "D", "I", "D", "O">>

(***************************************************************************)
(* C20                                                                     *)
(***************************************************************************)
\* the offset at which the part of marker i (1-based) ends: the next marker,
\* or the end of the text
MarkerPartEnd(t, ms, i) == IF i < Len(ms) THEN ms[i + 1] ELSE Len(t)

\* the order number of marker i: the token after it, up to the next marker
OrderNumberOf(t, ms, i) == SearchPedido(Slice(t, ms[i], MarkerPartEnd(t, ms, i)))

\* C20: the PEDIDO parse_order takes from chunk i is the token after marker
\* i, never the token after another marker; so N markers with N different
\* order numbers give N rows with N different PEDIDO values.
C20_PedidoOfOwnMarker ==
    pc = "done" =>
        LET t  == full_text
            ms == Markers(t)
            n  == Len(ms)
        IN  /\ Len(orders) = n
            /\ \A i \in 1..n : parse_order(orders[i]).PEDIDO = OrderNumberOf(t, ms, i)
            /\ (\A i, j \in 1..n :
                    /\ OrderNumberOf(t, ms, i) # <<>>
                    /\ i # j => OrderNumberOf(t, ms, i) # OrderNumberOf(t, ms, j))
               => /\ Len(rows) = n
                  /\ \A i, j \in 1..n : i # j => rows[i].PEDIDO # rows[j].PEDIDO

(***************************************************************************)
(* C21                                                                     *)
(***************************************************************************)
\* the position at which parse_page_eci reads model and colour for the
\* detail line at position i of lines
ModelColorPosition(lines, i) == i + 1 + (IF ExtraDesc(lines, i) # <<>> THEN 1 ELSE 0)

\* C21: the MODELO and COLOR of a row never come from a line that is itself
\* a detail line nor from a line that holds the noise marker: when the line
\* at the model/colour position is such a line, both are empty.
C21_NoModelFromDetailOrNoise ==
    pc = "done" =>
        \A p \in 1..Len(pages) :
            LET lines == PageLines(pages[p])
                pos   == DetailPositions(lines)
            IN  /\ Len(page_rows[p]) = Len(pos)
                /\ \A n \in 1..Len(pos) :
                       LET j == ModelColorPosition(lines, pos[n]) IN
                       (j <= Len(lines)
                        /\ (DetailStart(lines[j]) \/ Contains(lines[j], NoiseLit)))
                       => (page_rows[p][n].MODELO = <<>> /\ page_rows[p][n].COLOR = <<>>)

(***************************************************************************)
(* C22                                                                     *)
(***************************************************************************)
\* C22: in every row of parse_page_eci the token taken as quantity stands
\* after the code columns, at token index 5 or more, and before the token
\* taken as price; the line index, the 13-digit code and the three code
\* columns are never the quantity or the price.
C22_QuantityAfterCodeColumns ==
    pc = "done" =>
        \A n \in 1..Len(page_rows[1]) :
            LET parts == Split(PageLines(pages[1])[DetailPositions(PageLines(pages[1]))[n]])
                nums  == NumIndices(parts)
                q     == nums[Len(nums) - QtyFromEnd + 1]
                pr    == nums[Len(nums) - PriceFromEnd + 1]
            IN  /\ page_rows[1][n].TOTAL_UNIDADES = parts[q + 1]
                /\ page_rows[1][n].PRECIO = NormalizePriceEci(parts[pr + 1])
                /\ q >= DescFirstIdx
                /\ q < pr

====
